---- MODULE Spec2Model ----
(***************************************************************************)
(* Verification model of the swan-dist game-protocol server: the per-      *)
(* connection stage machine (server/connection.rs), the packet handler     *)
(* (server/handler.rs, main.rs) and the one-time-code manager (models.rs). *)
(***************************************************************************)
EXTENDS Integers, Sequences, FiniteSets, TLC

(***************************************************************************)
(* Bounds of the model.                                                    *)
(***************************************************************************)
\* frames per connection beyond the first of their kind: repeated packets and
\* frames without effect (unknown id, decode-only packet)
MaxExtra == 1
\* KeepAlive packets enqueued by one keepalive task
MaxKeepAlive == 1
\* chat lines submitted per connection
MaxChat == 1
\* get_stream calls per code
MaxStreams == 2

\* bytes the client writes before it closes the socket
MaxStreamLen == 6

\* byte values of the client's stream: three short lengths or packet ids and
\* a byte with the continuation bit
ByteValues == {0, 1, 2, 128}
\* first byte of a legacy server list ping
LegacyPing == 254
\* width of i32, bytes of a varint, bytes of a u64
IntWidth == 32
VarintMax == 5
U64Bytes == 8

\* chunks copied to one writer
MaxChunks == 2

\* chunk slots of the region: the corners and one slot inside
Slots == {<<0, 0>>, <<5, 7>>, <<31, 31>>}
\* bytes of a sector, sectors and bytes of the header
SectorSize == 4096
\* compression tags in front of a chunk's payload: gzip, zlib, stored, and
\* values that are no compression method
CompTags == {0, 1, 2, 3, 4, 255}
\* chunk coordinates tried are -MaxCoord .. MaxCoord
MaxCoord == 40
\* the largest sector count a header entry holds
MaxSectors == 255
HeaderSectors == 2
HeaderBytes == 8192
\* lengths of raw chunks: one byte, the last length that fits one sector
\* with its length field and the first that does not, and the same for 255
\* sectors, the most one entry of the header can record
RawLens == {1, 4092, 4093, 1044476, 1044477}
Timestamps == {7, 1700000000}

Conns == {1, 2}
Codes == {"code1", "code2"}
\* chat lines: the codes and one line that is never a code
ChatLines == Codes \cup {"zzzz"}
Profiles == {"Bob", "Eve"}
Names == {"Alice"}
Nonces == {"n1", "n2"}
Payloads == {11, 22}
\* number of registries found in the static registry blob of a version
RegistryCounts == {1, 2}

\* DefaultPacketHandler::new / AuthPacketHandler::new: placeholder profile
PlaceholderProfile == "Unknown"
\* ClientConnection::new: initial username
OfflineName == "Offline"
NoNonce == "none"
NoLine == "none"

(***************************************************************************)
(* ProtocolVersion: totally ordered by numeric id, with sentinel Unknown.  *)
(* The versions kept are the ones the connection code compares against.    *)
(***************************************************************************)
VersionOrder == <<"Unknown", "V1_19_4", "V1_20_2", "V1_20_4", "V1_20_5", "V1_21">>
Versions == {VersionOrder[i] : i \in DOMAIN VersionOrder}
VersionRank(v) == CHOOSE i \in DOMAIN VersionOrder : VersionOrder[i] = v
VersionLt(a, b) == VersionRank(a) < VersionRank(b)
VersionGe(a, b) == ~VersionLt(a, b)
\* the numeric id of each version, in the order of VersionOrder
VersionIds == <<-1, 762, 764, 765, 766, 767>>
\* ProtocolVersion::get_id
VersionGetId(v) == VersionIds[VersionRank(v)]
\* ProtocolVersion::from_id: a number that is no version's id gives Unknown
VersionFromId(n) ==
    IF \E i \in DOMAIN VersionIds : VersionIds[i] = n
    THEN VersionOrder[CHOOSE i \in DOMAIN VersionIds : VersionIds[i] = n]
    ELSE "Unknown"
\* protocol numbers a handshake may carry: the ids of the versions kept and
\* two numbers that are no version's id
ProtocolNumbers == {VersionIds[i] : i \in 2 .. Len(VersionIds)} \cup {5, 47}

Stages == {"Handshake", "Status", "Login", "Config", "Play", "Transfer", "Invalid"}

\* Stage::from_id
StageFromIdDefaultHandshake(id) ==
    IF id = 1 THEN "Status"
    ELSE IF id = 2 THEN "Login"
    ELSE IF id = 3 THEN "Transfer"
    ELSE "Handshake"
StageFromId(id) ==
    IF id = 1 THEN "Status"
    ELSE IF id = 2 THEN "Login"
    ELSE IF id = 3 THEN "Transfer"
    ELSE "Invalid"
\* next-stage ids a handshake may carry
NextStageIds == 0 .. 4

(***************************************************************************)
(* Outbound packets.  arg carries the text or value that identifies the    *)
(* packet's content, x and z the chunk coordinates or the ping payload.    *)
(***************************************************************************)
Pkt(type, arg) == [type |-> type, arg |-> arg, x |-> 0, z |-> 0]
PktXZ(type, arg, x, z) == [type |-> type, arg |-> arg, x |-> x, z |-> z]

TextOutdated == "Outdated client! Please use 1.21"
TextVerifyToken == "Failed to verify token"
TextProfileFailed == "Failed to retrieve Mojang profile"
TextNotExist == "This code does not exist! Did you enter it correctly?"
TextAlreadyUsed == "This code has already been used! Please generate a new code and try again."
TextAuthorized == "Authorization successful! You may return to the webmap."
TextWelcome == "Welcome!"
TextInstructions == "To verify your account, please send your one-time code in the game chat."

VARIABLES
    task,        \* connection task: "unaccepted", "running", "closed", "panicked"
    pc,          \* position of the connection task inside a handler
    stage,       \* handler.stage
    version,     \* ClientConnection.version
    username,    \* ClientConnection.username
    authNonce,   \* ClientConnection.auth_nonce
    profile,     \* handler.profile
    cipher,      \* enc_cipher / dec_cipher installed
    sent,        \* every packet handed to send_packet, in order
    wire,        \* packets written to the socket: <<packet, encrypted>>
    extra,       \* inbound frames that repeated a packet or had no effect
    handshakes,  \* handshake packets handled
    sessionReqs, \* hasJoined requests issued
    ka,          \* keepalive task: "none", "running", "stopped"
    ck,          \* chunk task: pc and spiral cursor
    chatMsg,     \* chat line being handled by on_chat
    chats,       \* chat lines handled
    codes,       \* AuthManager.one_time_codes
    nextGen,     \* channels created per code by get_stream
    rxAlive,     \* receivers of a code's channels still held by a poll
    delivered,   \* profiles sent on a code's channels: <<channel, profile, connection>>
    managerLock, \* holder of the AuthManager mutex, 0 when free
    protocol,    \* protocol number carried by the handshake packet, 0 before it
    statusReqs,  \* requests handled in stage Status, in order
    lastFrame,   \* stage and packet id of the frame dispatched last
    net,         \* bytes the client has sent and the server has not read yet
    rd,          \* the read branch: position, length being decoded, frames read
    region,      \* the source region: per slot, the raw chunk and its timestamp
    writer,      \* the RegionWriter the chunks are copied to
    calc         \* a call of a library function: its arguments and its result

connVars == <<task, pc, stage, version, username, authNonce, profile, cipher,
              sent, wire, extra, handshakes, sessionReqs, ka, ck, chatMsg, chats,
              protocol, statusReqs, lastFrame, net, rd, region, writer, calc>>
authVars == <<codes, nextGen, rxAlive, delivered, managerLock>>
vars == <<task, pc, stage, version, username, authNonce, profile, cipher,
          sent, wire, extra, handshakes, sessionReqs, ka, ck, chatMsg, chats,
          codes, nextGen, rxAlive, delivered, managerLock, protocol, statusReqs,
          lastFrame, net, rd, region, writer, calc>>
\* what the client sent and how far it has been read
histVars == <<protocol, statusReqs, lastFrame, net, rd, region, writer, calc>>
\* no frame dispatched yet
NoFrame == [stage |-> "none", id |-> -1]

\* the outbound queue: what was enqueued and is not yet written
Queue(c) == SubSeq(sent[c], Len(wire[c]) + 1, Len(sent[c]))
CountType(s, t) == Cardinality({i \in DOMAIN s : s[i].type = t})
CountPkt(s, p) == Cardinality({i \in DOMAIN s : s[i] = p})
HasType(s, t) == \E i \in DOMAIN s : s[i].type = t

\* OneTimeCode::new: unused, placeholder sender whose receiver is dropped
NewCode == [known |-> TRUE, used |-> FALSE, chan |-> 0]
NoCode == [known |-> FALSE, used |-> FALSE, chan |-> 0]
\* the chunk task before it is spawned
CkNone == [pc |-> "none", i |-> 0, x |-> 0, z |-> 0, dx |-> 0, dz |-> 0]
\* the chunk task as spawned: x = z = 0, dx = 0, dz = -1
CkStart == [pc |-> "running", i |-> 0, x |-> 0, z |-> 0, dx |-> 0, dz |-> -1]

(***************************************************************************)
(* Initial state: the listener has accepted connection 1; the AuthManager  *)
(* is empty.                                                               *)
(***************************************************************************)
InitConn ==
    /\ pc = [c \in Conns |-> "idle"]
    /\ stage = [c \in Conns |-> "Handshake"]
    /\ version = [c \in Conns |-> "Unknown"]
    /\ username = [c \in Conns |-> OfflineName]
    /\ authNonce = [c \in Conns |-> NoNonce]
    /\ profile = [c \in Conns |-> PlaceholderProfile]
    /\ cipher = [c \in Conns |-> FALSE]
    /\ sent = [c \in Conns |-> <<>>]
    /\ wire = [c \in Conns |-> <<>>]
    /\ extra = [c \in Conns |-> 0]
    /\ handshakes = [c \in Conns |-> 0]
    /\ sessionReqs = [c \in Conns |-> 0]
    /\ ka = [c \in Conns |-> "none"]
    /\ ck = [c \in Conns |-> CkNone]
    /\ chatMsg = [c \in Conns |-> NoLine]
    /\ chats = [c \in Conns |-> 0]
    /\ protocol = [c \in Conns |-> 0]
    /\ statusReqs = [c \in Conns |-> <<>>]
    /\ lastFrame = [c \in Conns |-> NoFrame]

InitManager ==
    /\ codes = [k \in Codes |-> NoCode]
    /\ nextGen = [k \in Codes |-> 0]
    /\ rxAlive = [k \in Codes |-> {}]
    /\ delivered = [k \in Codes |-> <<>>]
    /\ managerLock = 0

\* the read branch waits in select! for the first byte of a frame
RdIdle == [pc |-> "select", num |-> 0, i |-> 0, wrapped |-> FALSE,
           warned |-> FALSE, consumed |-> 0, decrypted |-> 0, frames |-> <<>>]
\* nothing on the socket, nothing read
InitReader == net = <<>> /\ rd = RdIdle

(***************************************************************************)
(* Region files (region.rs).  A file is its header, 1024 entries of a      *)
(* 3-byte sector offset and a sector count followed by 1024 timestamps,    *)
(* and the chunk area.  The chunk area is kept as its runs of bytes: a     *)
(* big-endian u32, the raw bytes of one chunk, a run of zeros.             *)
(***************************************************************************)
\* ChunkInfo::get_index
get_index(x, z) == z * 32 + x
Indexes == {get_index(s[1], s[2]) : s \in Slots}

\* a chunk's raw bytes as get_chunk_raw returns them: `len` bytes that are
\* the content named tok
NoChunk == [present |-> FALSE]
RawBytes(tok, len) == <<[kind |-> "raw", tok |-> tok, from |-> 1, to |-> len]>>

\* the big-endian bytes of a value, most significant first, and back
RECURSIVE put_uint(_, _)
put_uint(v, nbytes) ==
    IF nbytes = 0 THEN <<>>
    ELSE Append(put_uint(v \div 256, nbytes - 1), v % 256)
RECURSIVE get_uint(_)
get_uint(bytes) ==
    IF bytes = <<>> THEN 0
    ELSE get_uint(SubSeq(bytes, 1, Len(bytes) - 1)) * 256 + bytes[Len(bytes)]

\* (full_len as f32 / 4096f32).ceil(): exact for the lengths below 2^24
CeilSectors(full_len) == (full_len + SectorSize - 1) \div SectorSize

\* `as u8`
AsU8(n) == n % 256

\* RegionWriter::new
WriterNew ==
    [data |-> <<>>, current_sector |-> 0,
     chunks |-> [i \in Indexes |-> [offset |-> 0, sectors |-> 0]],
     timestamps |-> [i \in Indexes |-> 0],
     rawSet |-> {}, tsSet |-> {}]

\* the runs set_chunk_raw appends for raw bytes of length len: the length
\* field len - 1, the bytes, the padding to whole sectors
ChunkRuns(tok, len) ==
    LET full_len == len + 4
        pad      == CeilSectors(full_len) * SectorSize - full_len
    IN  <<[kind |-> "u32", val |-> len - 1, len |-> 4],
          [kind |-> "raw", tok |-> tok, len |-> len]>>
        \o (IF pad > 0 THEN <<[kind |-> "zeros", len |-> pad]>> ELSE <<>>)

\* RegionWriter::set_chunk_raw
set_chunk_raw(w, x, z, tok, len) ==
    LET num_sectors == CeilSectors(len + 4)
    IN  [w EXCEPT !.data = @ \o ChunkRuns(tok, len),
                  !.current_sector = @ + num_sectors,
                  !.chunks[get_index(x, z)] =
                      [offset |-> w.current_sector + HeaderSectors,
                       sectors |-> AsU8(num_sectors)],
                  !.rawSet = @ \cup {<<x, z>>}]

\* RegionWriter::set_chunk_timestamp
set_chunk_timestamp(w, x, z, timestamp) ==
    [w EXCEPT !.timestamps[get_index(x, z)] = timestamp,
              !.tsSet = @ \cup {<<x, z>>}]

\* RegionWriter::serialize: the header entries as bytes, then the chunk area
serialize(w) ==
    [chunks |-> [i \in Indexes |->
                    put_uint(w.chunks[i].offset, 3) \o put_uint(w.chunks[i].sectors, 1)],
     timestamps |-> [i \in Indexes |-> put_uint(w.timestamps[i], 4)],
     data |-> w.data]

\* Region::load: the header parsed, the file kept for the chunk reads
load(file) ==
    [header |-> [chunks |-> [i \in Indexes |->
                                [offset |-> get_uint(SubSeq(file.chunks[i], 1, 3)),
                                 sectors |-> file.chunks[i][4]]],
                 timestamps |-> [i \in Indexes |-> get_uint(file.timestamps[i])]],
     data |-> file.data]

RECURSIVE RunStart(_, _)
\* the position in the chunk area at which run i starts
RunStart(runs, i) == IF i = 1 THEN 0 ELSE RunStart(runs, i - 1) + runs[i - 1].len
DataLen(runs) == RunStart(runs, Len(runs) + 1)

RECURSIVE PiecesFrom(_, _, _, _)
\* the bytes of the chunk area in [pos, pos + count), as pieces of its runs
PiecesFrom(runs, i, pos, count) ==
    IF i > Len(runs) THEN <<>>
    ELSE LET start == RunStart(runs, i)
             lo    == IF pos > start THEN pos - start + 1 ELSE 1
             hi    == IF pos + count < start + runs[i].len
                      THEN pos + count - start ELSE runs[i].len
             piece == IF runs[i].kind = "raw"
                      THEN [kind |-> "raw", tok |-> runs[i].tok, from |-> lo, to |-> hi]
                      ELSE IF runs[i].kind = "u32"
                      THEN [kind |-> "u32", tok |-> runs[i].val, from |-> lo, to |-> hi]
                      ELSE [kind |-> "zeros", tok |-> 0, from |-> 1, to |-> hi - lo + 1]
         IN  (IF lo <= hi THEN <<piece>> ELSE <<>>)
             \o PiecesFrom(runs, i + 1, pos, count)

\* read_u32::<BigEndian> at pos of the chunk area: the value of the length
\* field that starts there
ReadU32(runs, pos) ==
    IF \E i \in DOMAIN runs : runs[i].kind = "u32" /\ RunStart(runs, i) = pos
    THEN runs[CHOOSE i \in DOMAIN runs : runs[i].kind = "u32" /\ RunStart(runs, i) = pos].val
    ELSE -1

\* Region::get_chunk_raw: None for an entry without offset or sectors; the
\* reads panic ("cannot read") beyond the end of the file
get_chunk_raw(r, x, z) ==
    LET info == r.header.chunks[get_index(x, z)]
        pos  == info.offset * SectorSize - HeaderBytes
    IN  IF info.offset = 0 \/ info.sectors = 0 THEN [some |-> FALSE, panic |-> FALSE]
        ELSE IF pos + 4 > DataLen(r.data) \/ ReadU32(r.data, pos) < 0
                \/ pos + 4 + ReadU32(r.data, pos) + 1 > DataLen(r.data)
        THEN [some |-> FALSE, panic |-> TRUE]
        ELSE [some |-> TRUE, panic |-> FALSE,
              raw |-> PiecesFrom(r.data, 1, pos + 4, ReadU32(r.data, pos) + 1)]

\* Region::get_timestamp
get_timestamp(r, x, z) == r.header.timestamps[get_index(x, z)]

\* no library function is being called
NoCalc == [op |-> "none"]
InitNoCalc == calc = NoCalc

\* no region file in use
InitNoRegion == region = [s \in Slots |-> NoChunk] /\ writer = WriterNew

\* nothing read and no region file in use
InitIdle == InitReader /\ InitNoRegion /\ InitNoCalc

\* the listener has accepted connection 1
InitFresh ==
    /\ task = [c \in Conns |-> IF c = 1 THEN "running" ELSE "unaccepted"]
    /\ InitConn
    /\ InitManager

Init == InitFresh /\ InitIdle

(***************************************************************************)
(* The connection task's select loop (connection.rs handle).               *)
(***************************************************************************)
\* the task is in its loop, not inside a handler
MainIdle(c) == task[c] = "running" /\ pc[c] = "idle"

\* handler.send_packet for a list of packets: the queue is unbounded and its
\* receiver lives as long as the connection task, so the sends succeed
EnqueueBroadcast(c, pkts) == sent' = [d \in Conns |-> sent[d] \o pkts]
Enqueue(c, pkts) == sent' = [sent EXCEPT ![c] = @ \o pkts]

\* PacketHandler::kick: the disconnect packet of the handler's stage
KickPlayInConfig(st, reason) ==
    IF st = "Login" THEN <<Pkt("LoginDisconnect", reason)>>
    ELSE IF st = "Config" THEN <<Pkt("PlayDisconnect", reason)>>
    ELSE IF st = "Play" THEN <<Pkt("PlayDisconnect", reason)>>
    ELSE <<>>
Kick(st, reason) ==
    IF st = "Login" THEN <<Pkt("LoginDisconnect", reason)>>
    ELSE IF st = "Config" THEN <<Pkt("ConfigDisconnect", reason)>>
    ELSE IF st = "Play" THEN <<Pkt("PlayDisconnect", reason)>>
    ELSE <<>>

\* one inbound frame is read
Frame(c) == MainIdle(c)

\* PacketC2S::id of the packets that have an arm
PacketIdOf ==
    [Handshake |-> 0, StatusRequest |-> 0, PingRequest |-> 1,
     LoginHello |-> 0, LoginKey |-> 1, EnterConfiguration |-> 3,
     ClientInfo |-> 0, Ready |-> 3, SelectKnownPacks |-> 7, Chat |-> 6]

\* the frame's packet id is read and matched in the arms of the stage
Dispatch(c, id) ==
    /\ Frame(c)
    /\ lastFrame' = [lastFrame EXCEPT ![c] = [stage |-> stage[c], id |-> id]]

\* the frame is charged to the connection's budget when it repeats a packet
Charge(c, repeated) ==
    /\ repeated => extra[c] < MaxExtra
    /\ extra' = [extra EXCEPT ![c] = IF repeated THEN @ + 1 ELSE @]

\* rx.recv(): the packet that has been longest on the queue
NextToWriteNewest(c) == sent[c][Len(sent[c])]
NextToWrite(c) == Head(Queue(c))

\* rx.recv() branch: one queued packet is encoded, encrypted when the
\* cipher is installed, and written
WritePacket(c) ==
    /\ MainIdle(c)
    /\ Len(wire[c]) < Len(sent[c])
    /\ wire' = [wire EXCEPT ![c] = Append(@, <<NextToWrite(c), cipher[c]>>)]
    /\ UNCHANGED <<task, pc, stage, version, username, authNonce, profile, cipher,
                   sent, extra, handshakes, sessionReqs, ka, ck, chatMsg, chats>>
    /\ UNCHANGED authVars
    /\ UNCHANGED histVars

\* write_all fails: break
WriteFail(c) ==
    /\ MainIdle(c)
    /\ Len(wire[c]) < Len(sent[c])
    /\ task' = [task EXCEPT ![c] = "closed"]
    /\ UNCHANGED <<pc, stage, version, username, authNonce, profile, cipher,
                   sent, wire, extra, handshakes, sessionReqs, ka, ck, chatMsg, chats>>
    /\ UNCHANGED authVars
    /\ UNCHANGED histVars

\* read returns 0 bytes (socket closed by the client): break
ClientClose(c) ==
    /\ MainIdle(c)
    /\ task' = [task EXCEPT ![c] = "closed"]
    /\ UNCHANGED <<pc, stage, version, username, authNonce, profile, cipher,
                   sent, wire, extra, handshakes, sessionReqs, ka, ck, chatMsg, chats>>
    /\ UNCHANGED authVars
    /\ UNCHANGED histVars

\* Stage::Handshake, HandshakeC2S
HandleHandshake(c, num, nextId) ==
    /\ Dispatch(c, PacketIdOf.Handshake)
    /\ stage[c] = "Handshake"
    /\ version' = [version EXCEPT ![c] = VersionFromId(num)]
    /\ protocol' = [protocol EXCEPT ![c] = num]
    /\ UNCHANGED <<statusReqs, net, rd, region, writer, calc>>
    /\ stage' = [stage EXCEPT ![c] = StageFromId(nextId)]
    /\ handshakes' = [handshakes EXCEPT ![c] = @ + 1]
    /\ UNCHANGED <<task, pc, username, authNonce, profile, cipher,
                   sent, wire, extra, sessionReqs, ka, ck, chatMsg, chats>>
    /\ UNCHANGED authVars

\* StatusBuilder::new(v): version.protocol is v.get_id()
StatusReply(v) == <<PktXZ("StatusResponse", "status", VersionGetId(v), 0)>>

\* Stage::Status, StatusRequestC2S
HandleStatusRequest(c) ==
    /\ Dispatch(c, PacketIdOf.StatusRequest)
    /\ stage[c] = "Status"
    /\ Charge(c, HasType(sent[c], "StatusResponse"))
    /\ Enqueue(c, StatusReply(version[c]))
    /\ statusReqs' = [statusReqs EXCEPT ![c] = Append(@, [type |-> "status", payload |-> 0])]
    /\ UNCHANGED <<protocol, net, rd, region, writer, calc>>
    /\ UNCHANGED <<task, pc, stage, version, username, authNonce, profile, cipher,
                   wire, handshakes, sessionReqs, ka, ck, chatMsg, chats>>
    /\ UNCHANGED authVars

\* PingResponseS2C::new(packet.payload)
PingReplyZero(payload) == <<PktXZ("PingResponse", "payload", 0, 0)>>
PingReply(payload) == <<PktXZ("PingResponse", "payload", payload, 0)>>

\* Stage::Status, PingRequestC2S
HandlePingRequest(c, payload) ==
    /\ Dispatch(c, PacketIdOf.PingRequest)
    /\ stage[c] = "Status"
    /\ Charge(c, HasType(sent[c], "PingResponse"))
    /\ Enqueue(c, PingReply(payload))
    /\ statusReqs' = [statusReqs EXCEPT ![c] = Append(@, [type |-> "ping", payload |-> payload])]
    /\ UNCHANGED <<protocol, net, rd, region, writer, calc>>
    /\ UNCHANGED <<task, pc, stage, version, username, authNonce, profile, cipher,
                   wire, handshakes, sessionReqs, ka, ck, chatMsg, chats>>
    /\ UNCHANGED authVars

\* Stage::Login, LoginHelloC2S
HandleLoginHello(c, name, nonce) ==
    /\ Dispatch(c, PacketIdOf.LoginHello)
    /\ stage[c] = "Login"
    /\ Charge(c, HasType(sent[c], "LoginHello") \/ CountPkt(sent[c], Pkt("LoginDisconnect", TextOutdated)) > 0)
    /\ IF version[c] # "V1_21"
       THEN /\ Enqueue(c, Kick(stage[c], TextOutdated))
            /\ UNCHANGED <<username, authNonce>>
       ELSE /\ username' = [username EXCEPT ![c] = name]
            /\ authNonce' = [authNonce EXCEPT ![c] = nonce]
            /\ Enqueue(c, <<Pkt("LoginHello", nonce)>>)
    /\ UNCHANGED <<task, pc, stage, version, profile, cipher,
                   wire, handshakes, sessionReqs, ka, ck, chatMsg, chats>>
    /\ UNCHANGED authVars
    /\ UNCHANGED <<protocol, statusReqs, net, rd, region, writer, calc>>

\* the connection task panics: its future is dropped, and with it the
\* queue's receiver and every lock guard it holds
Panic(c) ==
    /\ task' = [task EXCEPT ![c] = "panicked"]
    /\ pc' = [pc EXCEPT ![c] = "idle"]

\* answers of the session service to one hasJoined request
SessionAnswers == [ok : BOOLEAN, status : {200, 204}, body : Profiles \cup {"unparsable"}]

\* Stage::Login, LoginKeyC2S: the nonce check of the encryption response
NonceMismatch(ours, theirs) == ours # NoNonce /\ theirs # ours

\* if v < ProtocolVersion::V1_20_2: LoginSuccess switches the stage to Play
DirectPlayAlways(v) == TRUE
DirectPlay(v) == VersionLt(v, "V1_20_2")

\* Stage::Login, LoginKeyC2S.  decryptOk: the two RSA blobs decrypt;
\* nonce: the decrypted nonce; ans: what the session service answers
HandleLoginKey(c, decryptOk, nonce, ans) ==
    /\ Dispatch(c, PacketIdOf.LoginKey)
    /\ stage[c] = "Login"
    /\ Charge(c, sessionReqs[c] > 0 \/ CountPkt(sent[c], Pkt("LoginDisconnect", TextVerifyToken)) > 0)
    /\ IF ~decryptOk
       THEN \* key.decrypt(..).unwrap()
            /\ Panic(c)
            /\ UNCHANGED <<stage, username, profile, cipher, sent, sessionReqs>>
       ELSE IF NonceMismatch(authNonce[c], nonce)
       THEN /\ Enqueue(c, <<Pkt("LoginDisconnect", TextVerifyToken)>>)
            /\ UNCHANGED <<task, pc, stage, username, profile, cipher, sessionReqs>>
       ELSE /\ sessionReqs' = [sessionReqs EXCEPT ![c] = @ + 1]
            /\ IF ~ans.ok
               THEN \* reqwest::get(..).await.unwrap()
                    /\ Panic(c)
                    /\ UNCHANGED <<stage, username, profile, cipher, sent>>
               ELSE IF ans.body = "unparsable"
               THEN \* resp.json().await.unwrap(), after the kick of a non-200
                    /\ Panic(c)
                    /\ Enqueue(c, IF ans.status # 200 THEN Kick(stage[c], TextProfileFailed) ELSE <<>>)
                    /\ UNCHANGED <<stage, username, profile, cipher>>
               ELSE /\ username' = [username EXCEPT ![c] = ans.body]
                    /\ profile' = [profile EXCEPT ![c] = ans.body]
                    /\ cipher' = [cipher EXCEPT ![c] = TRUE]
                    /\ IF DirectPlay(version[c])
                       THEN /\ stage' = [stage EXCEPT ![c] = "Play"]
                            /\ Enqueue(c, (IF ans.status # 200 THEN Kick(stage[c], TextProfileFailed) ELSE <<>>)
                                          \o <<Pkt("LoginSuccess", ans.body), Pkt("JoinGame", "")>>)
                       ELSE /\ stage' = stage
                            /\ Enqueue(c, (IF ans.status # 200 THEN Kick(stage[c], TextProfileFailed) ELSE <<>>)
                                          \o <<Pkt("LoginSuccess", ans.body)>>)
                    /\ UNCHANGED <<task, pc>>
    /\ UNCHANGED <<version, authNonce, wire, handshakes, ka, ck, chatMsg, chats>>
    /\ UNCHANGED authVars
    /\ UNCHANGED <<protocol, statusReqs, net, rd, region, writer, calc>>

\* Stage::Login, EnterConfigurationC2S
HandleEnterConfiguration(c) ==
    /\ Dispatch(c, PacketIdOf.EnterConfiguration)
    /\ stage[c] = "Login"
    /\ stage' = [stage EXCEPT ![c] = "Config"]
    /\ UNCHANGED <<task, pc, version, username, authNonce, profile, cipher,
                   sent, wire, extra, handshakes, sessionReqs, ka, ck, chatMsg, chats>>
    /\ UNCHANGED authVars
    /\ UNCHANGED <<protocol, statusReqs, net, rd, region, writer, calc>>

\* Stage::Config, ClientInfoC2S: brand, features, known packs
ClientInfoReply(v) ==
    <<Pkt("CustomPayload", "minecraft:brand"), Pkt("Features", "minecraft:vanilla")>>
    \o (IF VersionGe(v, "V1_21") THEN <<Pkt("SelectKnownPacks", "minecraft:core:1.21")>>
        ELSE IF VersionGe(v, "V1_20_5") THEN <<Pkt("SelectKnownPacks", "")>>
        ELSE <<>>)

HandleClientInfo(c) ==
    /\ Dispatch(c, PacketIdOf.ClientInfo)
    /\ stage[c] = "Config"
    /\ Charge(c, HasType(sent[c], "CustomPayload"))
    /\ Enqueue(c, ClientInfoReply(version[c]))
    /\ UNCHANGED <<task, pc, stage, version, username, authNonce, profile, cipher,
                   wire, handshakes, sessionReqs, ka, ck, chatMsg, chats>>
    /\ UNCHANGED authVars
    /\ UNCHANGED <<protocol, statusReqs, net, rd, region, writer, calc>>

\* Stage::Config, SelectKnownPacksC2S: one DynamicRegistries per registry of
\* the blob (n of them), the links on 1.21, then Ready
RegistryPackets(n) == [i \in 1 .. n |-> PktXZ("DynamicRegistries", "registry", i, 0)]
KnownPacksReplyReadyFirst(v, n) ==
    <<Pkt("Ready", "")>>
    \o RegistryPackets(n)
    \o (IF VersionGe(v, "V1_21") THEN <<Pkt("Links", "")>> ELSE <<>>)
KnownPacksReply(v, n) ==
    RegistryPackets(n)
    \o (IF VersionGe(v, "V1_21") THEN <<Pkt("Links", "")>> ELSE <<>>)
    \o <<Pkt("Ready", "")>>

HandleSelectKnownPacks(c, n) ==
    /\ Dispatch(c, PacketIdOf.SelectKnownPacks)
    /\ stage[c] = "Config"
    /\ Charge(c, HasType(sent[c], "Ready"))
    /\ Enqueue(c, KnownPacksReply(version[c], n))
    /\ UNCHANGED <<task, pc, stage, version, username, authNonce, profile, cipher,
                   wire, handshakes, sessionReqs, ka, ck, chatMsg, chats>>
    /\ UNCHANGED authVars
    /\ UNCHANGED <<protocol, statusReqs, net, rd, region, writer, calc>>

\* Stage::Config, ReadyC2S, up to the spawn of the keepalive task
PlayEntryPacketsEventAlways(v) ==
    <<Pkt("JoinGame", ""), Pkt("GameEvent", "InitialChunksComing"), Pkt("SyncPlayerPosition", "")>>
PlayEntryPackets(v) ==
    <<Pkt("JoinGame", "")>>
    \o (IF VersionGe(v, "V1_20_4") THEN <<Pkt("GameEvent", "InitialChunksComing")>> ELSE <<>>)
    \o <<Pkt("SyncPlayerPosition", "")>>

HandleReady(c) ==
    /\ Dispatch(c, PacketIdOf.Ready)
    /\ stage[c] = "Config"
    /\ stage' = [stage EXCEPT ![c] = "Play"]
    /\ Enqueue(c, PlayEntryPackets(version[c]))
    /\ ka' = [ka EXCEPT ![c] = "running"]
    /\ pc' = [pc EXCEPT ![c] = "greet"]
    /\ UNCHANGED <<task, version, username, authNonce, profile, cipher,
                   wire, extra, handshakes, sessionReqs, ck, chatMsg, chats>>
    /\ UNCHANGED authVars
    /\ UNCHANGED <<protocol, statusReqs, net, rd, region, writer, calc>>

\* ReadyC2S continued: the two greetings, then the spawn of the chunk task
GreetingPackets == <<Pkt("GameMessage", TextWelcome), Pkt("GameMessage", TextInstructions)>>

Greet(c) ==
    /\ task[c] = "running"
    /\ pc[c] = "greet"
    /\ Enqueue(c, GreetingPackets)
    /\ ck' = [ck EXCEPT ![c] = CkStart]
    /\ pc' = [pc EXCEPT ![c] = "idle"]
    /\ UNCHANGED <<task, stage, version, username, authNonce, profile, cipher,
                   wire, extra, handshakes, sessionReqs, ka, chatMsg, chats>>
    /\ UNCHANGED authVars
    /\ UNCHANGED histVars

\* packet ids with a packet_case arm, per stage
ArmIds(st) ==
    IF st = "Handshake" THEN {0}
    ELSE IF st = "Status" THEN {0, 1}
    ELSE IF st = "Login" THEN 0 .. 4
    ELSE IF st = "Config" THEN 0 .. 7
    ELSE IF st = "Play" THEN {6}
    ELSE {}
\* arms that only decode their packet
DecodeOnlyIds(st) ==
    IF st = "Login" THEN {2, 4}
    ELSE IF st = "Config" THEN {1, 2, 4, 5, 6}
    ELSE {}
PacketIds == 0 .. 8

\* a frame whose id has no arm in the stage, or whose arm only decodes
HandleIgnoredKick(c, id) ==
    /\ Dispatch(c, id)
    /\ id \notin ArmIds(stage[c]) \/ id \in DecodeOnlyIds(stage[c])
    /\ Charge(c, TRUE)
    /\ Enqueue(c, <<Pkt("PlayDisconnect", "unknown packet")>>)
    /\ UNCHANGED <<task, pc, stage, version, username, authNonce, profile, cipher,
                   wire, handshakes, sessionReqs, ka, ck, chatMsg, chats>>
    /\ UNCHANGED authVars
    /\ UNCHANGED <<protocol, statusReqs, net, rd, region, writer, calc>>
HandleIgnored(c, id) ==
    /\ Dispatch(c, id)
    /\ id \notin ArmIds(stage[c]) \/ id \in DecodeOnlyIds(stage[c])
    /\ Charge(c, TRUE)
    /\ UNCHANGED <<task, pc, stage, version, username, authNonce, profile, cipher,
                   sent, wire, handshakes, sessionReqs, ka, ck, chatMsg, chats>>
    /\ UNCHANGED authVars
    /\ UNCHANGED <<protocol, statusReqs, net, rd, region, writer, calc>>

(***************************************************************************)
(* Background tasks of a connection in Play.                               *)
(***************************************************************************)
\* the handler mutex is held by the connection task for the whole of on_chat
HandlerLocked(c) == pc[c] \in {"chat_lock", "chat_use", "chat_send", "chat_kick"}

\* keepalive task: tick, lock the handler, send; a send error ends the task
KeepAliveTickNoStop(c) ==
    /\ ka[c] = "running"
    /\ ~HandlerLocked(c)
    /\ task[c] = "running"
    /\ CountType(sent[c], "KeepAlive") < MaxKeepAlive
    /\ Enqueue(c, <<Pkt("KeepAlive", "")>>)
    /\ UNCHANGED <<task, pc, stage, version, username, authNonce, profile, cipher,
                   wire, extra, handshakes, sessionReqs, ka, ck, chatMsg, chats>>
    /\ UNCHANGED authVars
    /\ UNCHANGED histVars
KeepAliveTick(c) ==
    /\ ka[c] = "running"
    /\ ~HandlerLocked(c)
    /\ IF task[c] = "running"
       THEN /\ CountType(sent[c], "KeepAlive") < MaxKeepAlive
            /\ Enqueue(c, <<Pkt("KeepAlive", "")>>)
            /\ ka' = ka
       ELSE /\ ka' = [ka EXCEPT ![c] = "stopped"]
            /\ sent' = sent
    /\ UNCHANGED <<task, pc, stage, version, username, authNonce, profile, cipher,
                   wire, extra, handshakes, sessionReqs, ck, chatMsg, chats>>
    /\ UNCHANGED authVars
    /\ UNCHANGED histVars

\* integer division truncating toward zero
TruncDiv(a, b) == IF a >= 0 THEN a \div b ELSE -((-a) \div b)
\* let diam = 3i32
Diam == 3
\* the range test of the chunk loop
InSquare(x, z) ==
    /\ TruncDiv(-Diam, 2) < x /\ x <= TruncDiv(Diam, 2)
    /\ TruncDiv(-Diam, 2) < z /\ z <= TruncDiv(Diam, 2)
\* the turn test of the spiral
Turns(x, z) == x = z \/ (x < 0 /\ x = -z) \/ (x > 0 /\ x = 1 - z)

\* chunk task: one iteration of its loop
ChunkStep(c) ==
    /\ ck[c].pc = "running"
    /\ LET k == ck[c]
           ndx == IF Turns(k.x, k.z) THEN -k.dz ELSE k.dx
           ndz == IF Turns(k.x, k.z) THEN k.dx ELSE k.dz
       IN  IF k.i = Diam * Diam
           THEN /\ ck' = [ck EXCEPT ![c].pc = "done"]
                /\ sent' = sent
           ELSE IF InSquare(k.x, k.z) /\ task[c] # "running"
           THEN \* send_packet(..).unwrap() on a closed queue
                /\ ck' = [ck EXCEPT ![c].pc = "panicked"]
                /\ sent' = sent
           ELSE /\ InSquare(k.x, k.z) => ~HandlerLocked(c)
                /\ sent' = [sent EXCEPT ![c] =
                              IF InSquare(k.x, k.z)
                              THEN Append(@, PktXZ("ChunkData", "empty", k.x, k.z))
                              ELSE @]
                /\ ck' = [ck EXCEPT ![c] = [pc |-> "running", i |-> k.i + 1,
                                            x |-> k.x + ndx, z |-> k.z + ndz,
                                            dx |-> ndx, dz |-> ndz]]
    /\ UNCHANGED <<task, pc, stage, version, username, authNonce, profile, cipher,
                   wire, extra, handshakes, sessionReqs, ka, chatMsg, chats>>
    /\ UNCHANGED authVars
    /\ UNCHANGED histVars

(***************************************************************************)
(* AuthManager (models.rs) and the web handlers that use it (handlers.rs). *)
(***************************************************************************)
\* AuthManager::has_code
HasCodeAnyEntry(m, code) == code \in DOMAIN m
HasCode(m, code) == code \in DOMAIN m /\ m[code].known
\* AuthManager::is_code_used
IsCodeUsed(m, code) == HasCode(m, code) /\ m[code].used
\* AuthManager::use_code with OneTimeCode::invalidate
UseCode(m, code) == IF HasCode(m, code) THEN [m EXCEPT ![code].used = TRUE] ELSE m
\* mpsc::channel(4) of OneTimeCode::get_stream
ChanCapacity == 4
\* Mutex::lock on the shared AuthManager is granted when nobody holds it
ManagerLockAlways == TRUE
ManagerLockFree == managerLock = 0

\* handlers::create_code: the drawn code is inserted with a fresh entry
CreateCode(code) ==
    /\ ManagerLockFree
    /\ codes' = [codes EXCEPT ![code] = NewCode]
    /\ UNCHANGED <<nextGen, rxAlive, delivered, managerLock>>
    /\ UNCHANGED connVars

\* handlers::poll_login: get_stream replaces the sender of a known code and
\* hands out the receiver; an unknown code is answered 404
PollLoginKeepSender(code) ==
    /\ ManagerLockFree
    /\ nextGen[code] < MaxStreams
    /\ IF HasCode(codes, code)
       THEN /\ nextGen' = [nextGen EXCEPT ![code] = @ + 1]
            /\ codes' = [codes EXCEPT ![code].chan = IF @ = 0 THEN nextGen[code] + 1 ELSE @]
            /\ rxAlive' = [rxAlive EXCEPT ![code] = @ \cup {nextGen[code] + 1}]
       ELSE UNCHANGED <<nextGen, codes, rxAlive>>
    /\ UNCHANGED <<delivered, managerLock>>
    /\ UNCHANGED connVars
PollLogin(code) ==
    /\ ManagerLockFree
    /\ nextGen[code] < MaxStreams
    /\ IF HasCode(codes, code)
       THEN /\ nextGen' = [nextGen EXCEPT ![code] = @ + 1]
            /\ codes' = [codes EXCEPT ![code].chan = nextGen[code] + 1]
            /\ rxAlive' = [rxAlive EXCEPT ![code] = @ \cup {nextGen[code] + 1}]
       ELSE UNCHANGED <<nextGen, codes, rxAlive>>
    /\ UNCHANGED <<delivered, managerLock>>
    /\ UNCHANGED connVars

\* the web client of a poll goes away: its receiver is dropped
DropReceiver(code, g) ==
    /\ g \in rxAlive[code]
    /\ rxAlive' = [rxAlive EXCEPT ![code] = @ \ {g}]
    /\ UNCHANGED <<codes, nextGen, delivered, managerLock>>
    /\ UNCHANGED connVars

(***************************************************************************)
(* Stage::Play, ChatC2S: AuthPacketHandler::on_chat (main.rs).             *)
(***************************************************************************)
\* the frame is dispatched: the handler mutex is taken, on_chat is entered
\* and waits for the AuthManager mutex
HandleChat(c, line) ==
    /\ Dispatch(c, PacketIdOf.Chat)
    /\ stage[c] = "Play"
    /\ chats[c] < MaxChat
    /\ chats' = [chats EXCEPT ![c] = @ + 1]
    /\ chatMsg' = [chatMsg EXCEPT ![c] = line]
    /\ pc' = [pc EXCEPT ![c] = "chat_lock"]
    /\ UNCHANGED <<task, stage, version, username, authNonce, profile, cipher,
                   sent, wire, extra, handshakes, sessionReqs, ka, ck>>
    /\ UNCHANGED authVars
    /\ UNCHANGED <<protocol, statusReqs, net, rd, region, writer, calc>>

\* on_chat: lock granted, has_code and is_code_used are tested
ChatCheck(c) ==
    /\ task[c] = "running"
    /\ pc[c] = "chat_lock"
    /\ ManagerLockFree
    /\ IF ~HasCode(codes, chatMsg[c])
       THEN /\ Enqueue(c, <<Pkt("GameMessage", TextNotExist)>>)
            /\ pc' = [pc EXCEPT ![c] = "idle"]
            /\ chatMsg' = [chatMsg EXCEPT ![c] = NoLine]
            /\ UNCHANGED managerLock
       ELSE IF IsCodeUsed(codes, chatMsg[c])
       THEN /\ Enqueue(c, <<Pkt("GameMessage", TextAlreadyUsed)>>)
            /\ pc' = [pc EXCEPT ![c] = "idle"]
            /\ chatMsg' = [chatMsg EXCEPT ![c] = NoLine]
            /\ UNCHANGED managerLock
       ELSE /\ managerLock' = c
            /\ pc' = [pc EXCEPT ![c] = "chat_use"]
            /\ UNCHANGED <<sent, chatMsg>>
    /\ UNCHANGED <<task, stage, version, username, authNonce, profile, cipher,
                   wire, extra, handshakes, sessionReqs, ka, ck, chats>>
    /\ UNCHANGED <<codes, nextGen, rxAlive, delivered>>
    /\ UNCHANGED histVars

\* on_chat: manager.use_code
ChatUse(c) ==
    /\ task[c] = "running"
    /\ pc[c] = "chat_use"
    /\ codes' = UseCode(codes, chatMsg[c])
    /\ pc' = [pc EXCEPT ![c] = "chat_send"]
    /\ UNCHANGED <<task, stage, version, username, authNonce, profile, cipher,
                   sent, wire, extra, handshakes, sessionReqs, ka, ck, chatMsg, chats>>
    /\ UNCHANGED <<nextGen, rxAlive, delivered, managerLock>>
    /\ UNCHANGED histVars

\* profiles buffered on channel g of a code
OnChannel(code, g) == Cardinality({i \in DOMAIN delivered[code] : delivered[code][i][1] = g})

\* on_chat: get_sender(..).unwrap().send(Some(profile)).await.unwrap()
ChatSendNoRoom(c) ==
    /\ task[c] = "running"
    /\ pc[c] = "chat_send"
    /\ codes[chatMsg[c]].chan \notin rxAlive[chatMsg[c]]
    /\ Panic(c)
    /\ managerLock' = IF managerLock = c THEN 0 ELSE managerLock
    /\ chatMsg' = [chatMsg EXCEPT ![c] = NoLine]
    /\ UNCHANGED <<stage, version, username, authNonce, profile, cipher,
                   sent, wire, extra, handshakes, sessionReqs, ka, ck, chats>>
    /\ UNCHANGED <<codes, nextGen, rxAlive, delivered>>
    /\ UNCHANGED histVars
ChatSend(c) ==
    /\ task[c] = "running"
    /\ pc[c] = "chat_send"
    /\ LET code == chatMsg[c]
           g == codes[code].chan
       IN  IF g \in rxAlive[code]
           THEN /\ OnChannel(code, g) < ChanCapacity
                /\ delivered' = [delivered EXCEPT ![code] = Append(@, <<g, profile[c], c>>)]
                /\ pc' = [pc EXCEPT ![c] = "chat_kick"]
                /\ UNCHANGED <<task, managerLock, chatMsg>>
           ELSE \* the receiver is gone: send fails and the unwrap panics
                /\ Panic(c)
                /\ managerLock' = IF managerLock = c THEN 0 ELSE managerLock
                /\ chatMsg' = [chatMsg EXCEPT ![c] = NoLine]
                /\ UNCHANGED delivered
    /\ UNCHANGED <<stage, version, username, authNonce, profile, cipher,
                   sent, wire, extra, handshakes, sessionReqs, ka, ck, chats>>
    /\ UNCHANGED <<codes, nextGen, rxAlive>>
    /\ UNCHANGED histVars

\* on_chat: kick with the success text; both mutexes are released on return
ChatKick(c) ==
    /\ task[c] = "running"
    /\ pc[c] = "chat_kick"
    /\ Enqueue(c, Kick(stage[c], TextAuthorized))
    /\ managerLock' = IF managerLock = c THEN 0 ELSE managerLock
    /\ pc' = [pc EXCEPT ![c] = "idle"]
    /\ chatMsg' = [chatMsg EXCEPT ![c] = NoLine]
    /\ UNCHANGED <<task, stage, version, username, authNonce, profile, cipher,
                   wire, extra, handshakes, sessionReqs, ka, ck, chats>>
    /\ UNCHANGED <<codes, nextGen, rxAlive, delivered>>
    /\ UNCHANGED histVars

(***************************************************************************)
(* Spec: one connection driven by arbitrary client frames from accept to   *)
(* Play: the stage dispatch of the read branch of the select loop.         *)
(***************************************************************************)
Next ==
    \E c \in Conns :
        \/ \E num \in ProtocolNumbers, nextId \in NextStageIds : HandleHandshake(c, num, nextId)
        \/ HandleStatusRequest(c)
        \/ \E payload \in Payloads : HandlePingRequest(c, payload)
        \/ \E name \in Names, nonce \in Nonces : HandleLoginHello(c, name, nonce)
        \/ \E decryptOk \in BOOLEAN, nonce \in Nonces, ans \in SessionAnswers :
               HandleLoginKey(c, decryptOk, nonce, ans)
        \/ HandleEnterConfiguration(c)
        \/ HandleClientInfo(c)
        \/ \E n \in RegistryCounts : HandleSelectKnownPacks(c, n)
        \/ HandleReady(c)
        \/ Greet(c)
        \/ \E id \in PacketIds : HandleIgnored(c, id)

Spec == Init /\ [][Next]_vars

(***************************************************************************)
(* SpecAuth: connections that logged in on 1.21 and have just been greeted *)
(* in Play submit chat lines while the web side polls for the codes.       *)
(***************************************************************************)
\* what a 1.21 client that follows the protocol has been sent on Play entry
PlayHistory(nonce, prof) ==
    <<Pkt("LoginHello", nonce), Pkt("LoginSuccess", prof)>>
    \o ClientInfoReply("V1_21") \o KnownPacksReply("V1_21", 1)
    \o PlayEntryPackets("V1_21") \o GreetingPackets

InitAuth ==
    /\ task = [c \in Conns |-> "running"]
    /\ pc = [c \in Conns |-> "idle"]
    /\ stage = [c \in Conns |-> "Play"]
    /\ version = [c \in Conns |-> "V1_21"]
    /\ profile = [c \in Conns |-> IF c = 1 THEN "Bob" ELSE "Eve"]
    /\ username = profile
    /\ authNonce = [c \in Conns |-> "n1"]
    /\ cipher = [c \in Conns |-> TRUE]
    /\ sent = [c \in Conns |-> PlayHistory("n1", profile[c])]
    /\ wire = [c \in Conns |-> <<>>]
    /\ extra = [c \in Conns |-> 0]
    /\ handshakes = [c \in Conns |-> 1]
    /\ sessionReqs = [c \in Conns |-> 1]
    /\ ka = [c \in Conns |-> "running"]
    /\ ck = [c \in Conns |-> CkStart]
    /\ chatMsg = [c \in Conns |-> NoLine]
    /\ chats = [c \in Conns |-> 0]
    /\ protocol = [c \in Conns |-> VersionGetId("V1_21")]
    /\ statusReqs = [c \in Conns |-> <<>>]
    /\ lastFrame = [c \in Conns |-> [stage |-> "Config", id |-> PacketIdOf.Ready]]
    /\ codes \in [Codes -> {NoCode, NewCode}]
    /\ nextGen = [k \in Codes |-> 0]
    /\ rxAlive = [k \in Codes |-> {}]
    /\ delivered = [k \in Codes |-> <<>>]
    /\ managerLock = 0
    /\ InitIdle

NextAuth ==
    \/ \E c \in Conns :
        \/ \E line \in ChatLines : HandleChat(c, line)
        \/ ChatCheck(c)
        \/ ChatUse(c)
        \/ ChatSend(c)
        \/ ChatKick(c)
    \/ \E code \in Codes : PollLogin(code)
    \/ \E code \in Codes, g \in 1 .. MaxStreams : DropReceiver(code, g)

SpecAuth == InitAuth /\ [][NextAuth]_vars

(***************************************************************************)
(* SpecWire: one 1.21 connection at the end of Config, whose answers so    *)
(* far are written, enters Play.  The main handler, the keepalive task and *)
(* the chunk task fill the outbound queue, the write branch drains it, and *)
(* the connection may end by a write error or by the client closing.       *)
(***************************************************************************)
\* what a 1.21 client that follows the protocol has been sent up to Ready
ConfigHistory(nonce, prof) ==
    <<Pkt("LoginHello", nonce), Pkt("LoginSuccess", prof)>>
    \o ClientInfoReply("V1_21") \o KnownPacksReply("V1_21", 1)
\* the same packets as written: the cipher is installed before LoginSuccess
Written(h) == [i \in 1 .. Len(h) |-> <<h[i], i > 1>>]
\* a code created by create_code whose poll holds the receiver of channel 1
PolledCode == [known |-> TRUE, used |-> FALSE, chan |-> 1]

InitWireState ==
    /\ task = [c \in Conns |-> IF c = 1 THEN "running" ELSE "unaccepted"]
    /\ pc = [c \in Conns |-> "idle"]
    /\ stage = [c \in Conns |-> IF c = 1 THEN "Config" ELSE "Handshake"]
    /\ version = [c \in Conns |-> IF c = 1 THEN "V1_21" ELSE "Unknown"]
    /\ profile \in [Conns -> Profiles \cup {PlaceholderProfile}]
    /\ profile[1] \in Profiles /\ profile[2] = PlaceholderProfile
    /\ username = [c \in Conns |-> IF c = 1 THEN profile[1] ELSE OfflineName]
    /\ authNonce = [c \in Conns |-> IF c = 1 THEN "n1" ELSE NoNonce]
    /\ cipher = [c \in Conns |-> c = 1]
    /\ sent = [c \in Conns |-> IF c = 1 THEN ConfigHistory("n1", profile[1]) ELSE <<>>]
    /\ wire = [c \in Conns |-> Written(sent[c])]
    /\ extra = [c \in Conns |-> 0]
    /\ handshakes = [c \in Conns |-> IF c = 1 THEN 1 ELSE 0]
    /\ sessionReqs = [c \in Conns |-> IF c = 1 THEN 1 ELSE 0]
    /\ ka = [c \in Conns |-> "none"]
    /\ ck = [c \in Conns |-> CkNone]
    /\ chatMsg = [c \in Conns |-> NoLine]
    /\ chats = [c \in Conns |-> 0]
    /\ protocol = [c \in Conns |-> IF c = 1 THEN VersionGetId("V1_21") ELSE 0]
    /\ statusReqs = [c \in Conns |-> <<>>]
    /\ lastFrame = [c \in Conns |-> IF c = 1
                                     THEN [stage |-> "Config", id |-> PacketIdOf.SelectKnownPacks]
                                     ELSE NoFrame]
    /\ codes = [k \in Codes |-> IF k = "code1" THEN PolledCode ELSE NoCode]
    /\ nextGen = [k \in Codes |-> IF k = "code1" THEN 1 ELSE 0]
    /\ rxAlive = [k \in Codes |-> IF k = "code1" THEN {1} ELSE {}]
    /\ delivered = [k \in Codes |-> <<>>]
    /\ managerLock = 0

InitWire == InitWireState /\ InitIdle

NextWire ==
    \E c \in Conns :
        \/ HandleReady(c)
        \/ Greet(c)
        \/ \E line \in ChatLines : HandleChat(c, line)
        \/ ChatCheck(c)
        \/ ChatUse(c)
        \/ ChatSend(c)
        \/ ChatKick(c)
        \/ KeepAliveTick(c)
        \/ ChunkStep(c)
        \/ WritePacket(c)
        \/ WriteFail(c)
        \/ ClientClose(c)

SpecWire == InitWire /\ [][NextWire]_vars

\* the runtime keeps scheduling the two spawned tasks: the interval of the
\* keepalive task keeps ticking and the chunk task is never starved
SpecWireFair ==
    /\ SpecWire
    /\ \A c \in Conns : WF_vars(KeepAliveTick(c)) /\ WF_vars(ChunkStep(c))

(***************************************************************************)
(* SpecFrame: the read branch of connection 1, byte by byte.  The client   *)
(* has written a stream of bytes and closed its end; the server reads it   *)
(* in pieces of any size.  The connection is either in Status (no cipher)  *)
(* or in Play on 1.21 (decrypt cipher installed).                          *)
(***************************************************************************)
\* a & 0x7F and the continuation bit of a byte
Low7(b) == b % 128
HasMore(b) == b >= 128

\* i32::MIN and i32::MAX
MinI32 == (0 - 2147483647) - 1
MaxI32 == 2147483647
\* the bits 0..30 of an i32 in two's complement, as a number
Low31(v) == IF v < 0 THEN (v + MaxI32) + 1 ELSE v
\* the i32 with these bits 0..30 and this bit 31
FromBits(low, neg) == IF neg THEN (low - MaxI32) - 1 ELSE low

RECURSIVE BitOrNat(_, _)
\* a | b on non-negative integers
BitOrNat(a, b) ==
    IF a = 0 THEN b
    ELSE IF b = 0 THEN a
    ELSE (IF a % 2 = 1 \/ b % 2 = 1 THEN 1 ELSE 0) + 2 * BitOrNat(a \div 2, b \div 2)
\* a | b on i32
BitOr(a, b) == FromBits(BitOrNat(Low31(a), Low31(b)), a < 0 \/ b < 0)

\* x << s on i32 for the shift amounts below the width: the bits shifted
\* beyond bit 31 are lost, bit 31 - s becomes the sign
Shl(x, s) ==
    IF s = 0 THEN x
    ELSE FromBits((Low31(x) % 2 ^ (31 - s)) * 2 ^ s,
                  (Low31(x) \div 2 ^ (31 - s)) % 2 = 1)

\* i32 << amount: amounts of 32 and more are an overflow
ShiftOverflows(amount) == amount >= IntWidth
\* the amount a build without overflow checks shifts by
MaskedShift(amount) == amount % IntWidth

\* all byte sequences the client may have sent before closing
Streams == UNION {[1 .. n -> ByteValues] : n \in 0 .. MaxStreamLen}

\* the decrypt cipher is installed and has processed other bytes than the
\* ones the client encrypted: what it yields is noise
Desynced == cipher[1] /\ rd.decrypted # rd.consumed
\* maybe_decrypt of one byte read from the socket
Decrypted(b) == IF Desynced THEN ByteValues ELSE {b}

\* the reader state after n bytes were taken from the socket and m bytes
\* went through maybe_decrypt
Advance(r, n, m) ==
    [r EXCEPT !.consumed = @ + n,
              !.decrypted = IF cipher[1] THEN @ + m ELSE @]

\* break: the task leaves its loop
LeaveLoop == task' = [task EXCEPT ![1] = "closed"]

\* after the length is known: a zero length breaks, any other length is
\* followed by the read of the body
AfterLength(r, num) ==
    IF num = 0
    THEN /\ LeaveLoop
         /\ rd' = [r EXCEPT !.pc = "select", !.num = 0]
    ELSE /\ rd' = [r EXCEPT !.pc = "body", !.num = num]
         /\ UNCHANGED task

\* select!: read_half.read(&mut first_byte) completes
ReadFirstByte ==
    /\ MainIdle(1)
    /\ rd.pc = "select"
    /\ IF net = <<>>
       THEN /\ LeaveLoop
            /\ UNCHANGED <<net, rd, region, writer, calc>>
       ELSE \E b \in Decrypted(Head(net)) :
            /\ net' = Tail(net)
            /\ IF stage[1] = "Handshake" /\ b = LegacyPing
               THEN LeaveLoop /\ rd' = Advance(rd, 1, 1)
               ELSE IF HasMore(b)
               THEN /\ rd' = [Advance(rd, 1, 1) EXCEPT
                                 !.pc = "varint", !.num = Low7(b), !.i = 1]
                    /\ UNCHANGED task
               ELSE AfterLength([Advance(rd, 1, 1) EXCEPT !.i = 0], b)
    /\ UNCHANGED <<pc, stage, version, username, authNonce, profile, cipher,
                   sent, wire, extra, handshakes, sessionReqs, ka, ck, chatMsg, chats>>
    /\ UNCHANGED authVars
    /\ UNCHANGED <<protocol, statusReqs, lastFrame, region, writer, calc>>

\* the inner loop of the length: one more read of one byte.  A read of no
\* byte logs "partial decode!" and tries again; at the sixth byte the shift
\* amount is 35, which panics where overflow checks are compiled in and is
\* masked to 3 where they are not
ReadLengthByte ==
    /\ MainIdle(1)
    /\ rd.pc = "varint"
    /\ IF net = <<>>
       THEN /\ rd' = [rd EXCEPT !.warned = TRUE]
            /\ UNCHANGED <<net, task, pc>>
       ELSE \E b \in Decrypted(Head(net)) :
            LET amount == rd.i * 7
                r      == Advance(rd, 1, 1)
                num    == BitOr(rd.num, Shl(Low7(b), MaskedShift(amount)))
            IN  /\ net' = Tail(net)
                /\ \/ /\ ShiftOverflows(amount)
                      /\ ~rd.wrapped
                      /\ Panic(1)
                      /\ rd' = r
                   \/ /\ UNCHANGED pc
                      /\ IF HasMore(b)
                         THEN /\ rd' = [r EXCEPT !.num = num, !.i = @ + 1,
                                            !.wrapped = @ \/ ShiftOverflows(amount)]
                              /\ UNCHANGED task
                         ELSE AfterLength([r EXCEPT !.wrapped = @ \/ ShiftOverflows(amount)],
                                          num)
    /\ UNCHANGED <<stage, version, username, authNonce, profile, cipher,
                   sent, wire, extra, handshakes, sessionReqs, ka, ck, chatMsg, chats>>
    /\ UNCHANGED authVars
    /\ UNCHANGED <<protocol, statusReqs, lastFrame, region, writer, calc>>

\* the values the buffer may hold at position j after k bytes were read into
\* it and maybe_decrypt went over all of it: the bytes read, then the zeros
\* of vec![0u8; num]; noise where the cipher went over bytes that the client
\* did not encrypt at that position
BufValues(k, j) ==
    IF cipher[1]
    THEN IF j <= k /\ ~Desynced THEN {net[j]} ELSE ByteValues
    ELSE IF j <= k THEN {net[j]} ELSE {0}

RECURSIVE BufHeads(_, _, _)
\* the first n bytes the buffer may hold, from position j on
BufHeads(k, j, n) ==
    IF j > n THEN {<<>>}
    ELSE {<<b>> \o t : b \in BufValues(k, j), t \in BufHeads(k, j + 1, n)}

RECURSIVE ReadVarintFrom(_, _, _, _)
\* utils::read_varint on a buffer of `size` bytes whose first bytes are hd:
\* at most 5 bytes, and get_u8 panics when the buffer is exhausted
ReadVarintFrom(hd, size, j, val) ==
    IF j > VarintMax THEN [ok |-> TRUE, val |-> val, used |-> VarintMax]
    ELSE IF j > size THEN [ok |-> FALSE, val |-> val, used |-> j - 1]
    ELSE LET v == BitOr(val, Shl(Low7(hd[j]), (j - 1) * 7))
         IN  IF HasMore(hd[j]) THEN ReadVarintFrom(hd, size, j + 1, v)
             ELSE [ok |-> TRUE, val |-> v, used |-> j]
read_varint(hd, size) == ReadVarintFrom(hd, size, 1, 0)

\* PingRequestC2S::decode: buf.get_u64() of the 8 bytes after the packet id,
\* kept as its bytes; k bytes of the buffer were read, the others are zero
PingPayload(k, used) ==
    [j \in 1 .. U64Bytes |-> IF used + j <= k THEN net[used + j] ELSE 0]

\* the arms of the stage for the frame just read.  ChatC2S, the only arm of
\* Play, has an id that no buffer over ByteValues decodes to
FrameArms(id, size, k) ==
    IF ~id.ok THEN Panic(1) /\ UNCHANGED <<sent, statusReqs>>
    ELSE IF stage[1] = "Status" /\ id.val = PacketIdOf.StatusRequest
    THEN /\ Enqueue(1, StatusReply(version[1]))
         /\ statusReqs' = [statusReqs EXCEPT ![1] =
                              Append(@, [type |-> "status", payload |-> 0])]
         /\ UNCHANGED <<task, pc>>
    ELSE IF stage[1] = "Status" /\ id.val = PacketIdOf.PingRequest
    THEN IF size - id.used < U64Bytes
         THEN Panic(1) /\ UNCHANGED <<sent, statusReqs>>
         ELSE /\ Enqueue(1, PingReply(PingPayload(k, id.used)))
              /\ statusReqs' = [statusReqs EXCEPT ![1] =
                      Append(@, [type |-> "ping", payload |-> PingPayload(k, id.used)])]
              /\ UNCHANGED <<task, pc>>
    ELSE /\ id.val \notin ArmIds(stage[1])
         /\ UNCHANGED <<task, pc, sent, statusReqs>>

\* read_half.read(&mut buf[..]) returns k bytes, k = 0 when the client has
\* closed; a k other than the length is logged and the buffer is decrypted
\* and dispatched all the same
ReadBody(k) ==
    /\ MainIdle(1)
    /\ rd.pc = "body"
    /\ IF net = <<>> THEN k = 0 ELSE k >= 1 /\ k <= rd.num /\ k <= Len(net)
    /\ \E hd \in BufHeads(k, 1, IF rd.num < VarintMax THEN rd.num ELSE VarintMax) :
        /\ LET id == read_varint(hd, rd.num)
           IN  /\ FrameArms(id, rd.num, k)
               /\ lastFrame' = [lastFrame EXCEPT ![1] = [stage |-> stage[1], id |-> id.val]]
               /\ rd' = [Advance(rd, k, rd.num) EXCEPT
                            !.pc = "select", !.num = 0, !.i = 0,
                            !.frames = Append(@, [len |-> rd.num, read |-> k,
                                                  prefix |-> rd.i + 1,
                                                  id |-> id.val])]
    /\ net' = SubSeq(net, k + 1, Len(net))
    /\ UNCHANGED <<stage, version, username, authNonce, profile, cipher,
                   wire, extra, handshakes, sessionReqs, ka, ck, chatMsg, chats>>
    /\ UNCHANGED authVars
    /\ UNCHANGED <<protocol, region, writer, calc>>

\* connection 1 after its handshake named 1.21 and the stage st
InitFrameState(st) ==
    /\ task = [c \in Conns |-> IF c = 1 THEN "running" ELSE "unaccepted"]
    /\ pc = [c \in Conns |-> "idle"]
    /\ stage = [c \in Conns |-> IF c = 1 THEN st ELSE "Handshake"]
    /\ version = [c \in Conns |-> IF c = 1 THEN "V1_21" ELSE "Unknown"]
    /\ profile = [c \in Conns |-> IF c = 1 /\ st = "Play" THEN "Bob" ELSE PlaceholderProfile]
    /\ username = [c \in Conns |-> IF c = 1 /\ st = "Play" THEN "Bob" ELSE OfflineName]
    /\ authNonce = [c \in Conns |-> IF c = 1 /\ st = "Play" THEN "n1" ELSE NoNonce]
    /\ cipher = [c \in Conns |-> c = 1 /\ st = "Play"]
    /\ sent = [c \in Conns |-> IF c = 1 /\ st = "Play" THEN PlayHistory("n1", "Bob") ELSE <<>>]
    /\ wire = [c \in Conns |-> Written(sent[c])]
    /\ extra = [c \in Conns |-> 0]
    /\ handshakes = [c \in Conns |-> IF c = 1 THEN 1 ELSE 0]
    /\ sessionReqs = [c \in Conns |-> IF c = 1 /\ st = "Play" THEN 1 ELSE 0]
    /\ ka = [c \in Conns |-> IF c = 1 /\ st = "Play" THEN "running" ELSE "none"]
    /\ ck = [c \in Conns |-> IF c = 1 /\ st = "Play" THEN CkStart ELSE CkNone]
    /\ chatMsg = [c \in Conns |-> NoLine]
    /\ chats = [c \in Conns |-> 0]
    /\ protocol = [c \in Conns |-> IF c = 1 THEN VersionGetId("V1_21") ELSE 0]
    /\ statusReqs = [c \in Conns |-> <<>>]
    /\ lastFrame = [c \in Conns |->
            IF c = 1 THEN [stage |-> IF st = "Play" THEN "Config" ELSE "Handshake",
                           id |-> IF st = "Play" THEN PacketIdOf.Ready
                                  ELSE PacketIdOf.Handshake]
            ELSE NoFrame]
    /\ InitManager

InitFrame ==
    /\ \E st \in {"Status", "Play"} : InitFrameState(st)
    /\ net \in Streams
    /\ rd = RdIdle
    /\ InitNoRegion
    /\ InitNoCalc

NextFrame ==
    \/ ReadFirstByte
    \/ ReadLengthByte
    \/ \E k \in 0 .. MaxStreamLen : ReadBody(k)

SpecFrame == InitFrame /\ [][NextFrame]_vars

\* the socket's reads complete: bytes that are there are delivered, and a
\* closed socket reports the end of the stream
SpecFrameFair ==
    /\ SpecFrame
    /\ WF_vars(ReadFirstByte)
    /\ WF_vars(ReadLengthByte)
    /\ WF_vars(\E k \in 0 .. MaxStreamLen : ReadBody(k))

(***************************************************************************)
(* SpecRegion: the chunks of a source region are copied to a RegionWriter, *)
(* raw bytes and timestamp of one slot at a time, each at most once.       *)
(***************************************************************************)
\* what a source region may hold in a slot: nothing, or raw bytes of one of
\* the lengths with a timestamp
SourceChunks ==
    {NoChunk} \cup
    {[present |-> TRUE, len |-> n, timestamp |-> t] : n \in RawLens, t \in Timestamps}

\* writer.set_chunk_raw(x, z, reader.get_chunk_raw(x, z).unwrap())
SetChunkRaw(x, z) ==
    /\ region[<<x, z>>].present
    /\ <<x, z>> \notin writer.rawSet
    /\ Cardinality(writer.rawSet) < MaxChunks
    /\ writer' = set_chunk_raw(writer, x, z, <<x, z>>, region[<<x, z>>].len)
    /\ UNCHANGED region
    /\ UNCHANGED <<task, pc, stage, version, username, authNonce, profile, cipher,
                   sent, wire, extra, handshakes, sessionReqs, ka, ck, chatMsg, chats>>
    /\ UNCHANGED authVars
    /\ UNCHANGED <<protocol, statusReqs, lastFrame, net, rd, calc>>

\* writer.set_chunk_timestamp(x, z, *reader.get_timestamp(x, z).unwrap())
SetChunkTimestamp(x, z) ==
    /\ region[<<x, z>>].present
    /\ <<x, z>> \notin writer.tsSet
    /\ Cardinality(writer.tsSet) < MaxChunks
    /\ writer' = set_chunk_timestamp(writer, x, z, region[<<x, z>>].timestamp)
    /\ UNCHANGED region
    /\ UNCHANGED <<task, pc, stage, version, username, authNonce, profile, cipher,
                   sent, wire, extra, handshakes, sessionReqs, ka, ck, chatMsg, chats>>
    /\ UNCHANGED authVars
    /\ UNCHANGED <<protocol, statusReqs, lastFrame, net, rd, calc>>

InitRegion ==
    /\ InitFresh
    /\ InitReader
    /\ region \in [Slots -> SourceChunks]
    /\ writer = WriterNew
    /\ InitNoCalc

NextRegion ==
    \E s \in Slots : SetChunkRaw(s[1], s[2]) \/ SetChunkTimestamp(s[1], s[2])

SpecRegion == InitRegion /\ [][NextRegion]_vars

(***************************************************************************)
(* SpecLogin: one connection from accept to its chat line, while a poll    *)
(* holds the receiver of code1.                                            *)
(***************************************************************************)
InitLogin ==
    /\ task = [c \in Conns |-> IF c = 1 THEN "running" ELSE "unaccepted"]
    /\ InitConn
    /\ codes = [k \in Codes |-> IF k = "code1" THEN PolledCode ELSE NoCode]
    /\ nextGen = [k \in Codes |-> IF k = "code1" THEN 1 ELSE 0]
    /\ rxAlive = [k \in Codes |-> IF k = "code1" THEN {1} ELSE {}]
    /\ delivered = [k \in Codes |-> <<>>]
    /\ managerLock = 0
    /\ InitIdle

NextLogin ==
    \E c \in Conns :
        \/ \E num \in ProtocolNumbers, nextId \in NextStageIds : HandleHandshake(c, num, nextId)
        \/ \E name \in Names, nonce \in Nonces : HandleLoginHello(c, name, nonce)
        \/ \E decryptOk \in BOOLEAN, nonce \in Nonces, ans \in SessionAnswers :
               HandleLoginKey(c, decryptOk, nonce, ans)
        \/ HandleEnterConfiguration(c)
        \/ HandleClientInfo(c)
        \/ \E n \in RegistryCounts : HandleSelectKnownPacks(c, n)
        \/ HandleReady(c)
        \/ Greet(c)
        \/ \E line \in ChatLines : HandleChat(c, line)
        \/ ChatCheck(c)
        \/ ChatUse(c)
        \/ ChatSend(c)
        \/ ChatKick(c)

SpecLogin == InitLogin /\ [][NextLogin]_vars

(***************************************************************************)
(* SpecChunkRead: Region::get_chunk_data, get_chunk_nbt and get_chunk on   *)
(* one slot of a region file.                                              *)
(***************************************************************************)
\* a slot as the reads see it: its header entry, the compression tag in
\* front of its payload, and whether the payload decompresses
ChunkReads == [offset : {0, HeaderSectors}, sectors : {0, 1}, comp : CompTags, intact : BOOLEAN]

ReadNone == [some |-> FALSE, panic |-> FALSE]
ReadPanic == [some |-> FALSE, panic |-> TRUE]
ReadSome(what) == [some |-> TRUE, panic |-> FALSE, what |-> what]

\* Region::get_chunk_data: None without offset or sectors; gzip and zlib
\* payloads are inflated with expect(), stored ones are returned, and any
\* other tag is panic!("invalid compression method")
get_chunk_data(ch) ==
    IF ch.offset = 0 \/ ch.sectors = 0 THEN ReadNone
    ELSE IF ch.comp \in {1, 2} THEN (IF ch.intact THEN ReadSome("data") ELSE ReadPanic)
    ELSE IF ch.comp = 3 THEN ReadSome("data")
    ELSE ReadPanic

\* Region::get_chunk_nbt: Some(Tag::parse(..)) of the data, else None
get_chunk_nbt(ch) ==
    IF get_chunk_data(ch).some THEN ReadSome("nbt") ELSE get_chunk_data(ch)

\* Region::get_chunk: Some(Chunk::new(..)) of the tag, else None
get_chunk(ch) ==
    IF get_chunk_nbt(ch).some THEN ReadSome("chunk") ELSE get_chunk_nbt(ch)

\* a call that has not returned yet
Call(op, arg) == [op |-> op, arg |-> arg, done |-> FALSE]
Pending(op) == calc.op = op /\ ~calc.done
\* the call returns res; nothing else changes
Return(res) ==
    /\ calc' = [op |-> calc.op, arg |-> calc.arg, done |-> TRUE, res |-> res]
    /\ UNCHANGED <<task, pc, stage, version, username, authNonce, profile, cipher,
                   sent, wire, extra, handshakes, sessionReqs, ka, ck, chatMsg, chats>>
    /\ UNCHANGED authVars
    /\ UNCHANGED <<protocol, statusReqs, lastFrame, net, rd, region, writer>>
\* a step of a library function changes nothing of the server
CalcOnly ==
    /\ UNCHANGED <<task, pc, stage, version, username, authNonce, profile, cipher,
                   sent, wire, extra, handshakes, sessionReqs, ka, ck, chatMsg, chats>>
    /\ UNCHANGED authVars
    /\ UNCHANGED <<protocol, statusReqs, lastFrame, net, rd, region, writer>>
\* the state around a call of a library function
InitCall == InitFresh /\ InitReader /\ InitNoRegion

GetChunkData == Pending("get_chunk_data") /\ Return(get_chunk_data(calc.arg))
GetChunkNbt == Pending("get_chunk_nbt") /\ Return(get_chunk_nbt(calc.arg))
GetChunk == Pending("get_chunk") /\ Return(get_chunk(calc.arg))

InitChunkRead ==
    /\ InitCall
    /\ \E op \in {"get_chunk_data", "get_chunk_nbt", "get_chunk"}, ch \in ChunkReads :
           calc = Call(op, ch)

NextChunkRead == GetChunkData \/ GetChunkNbt \/ GetChunk

SpecChunkRead == InitChunkRead /\ [][NextChunkRead]_vars

(***************************************************************************)
(* SpecIndex: ChunkInfo::get_index for coordinates in and out of 0..31,    *)
(* alone and as the index of RegionWriter::set_chunk_timestamp.            *)
(***************************************************************************)
Coords == (0 - MaxCoord) .. MaxCoord
\* entries of the header's vectors
HeaderEntries == 1024

\* self.header.timestamps[get_index(x, z)] = timestamp: indexing a Vec out
\* of its bounds panics.  A negative sum is, as usize, beyond every bound
TimestampStore(x, z) ==
    IF get_index(x, z) >= 0 /\ get_index(x, z) < HeaderEntries
    THEN [index |-> get_index(x, z), panic |-> FALSE]
    ELSE [index |-> get_index(x, z), panic |-> TRUE]

GetIndex ==
    /\ Pending("get_index")
    /\ Return([index |-> get_index(calc.arg[1], calc.arg[2]), panic |-> FALSE])
SetTimestampAt ==
    /\ Pending("set_chunk_timestamp")
    /\ Return(TimestampStore(calc.arg[1], calc.arg[2]))

InitIndex ==
    /\ InitCall
    /\ \E op \in {"get_index", "set_chunk_timestamp"}, x \in Coords, z \in Coords :
           calc = Call(op, <<x, z>>)

NextIndex == GetIndex \/ SetTimestampAt

SpecIndex == InitIndex /\ [][NextIndex]_vars

(***************************************************************************)
(* SpecVarint: utils::write_varint of an i32 and utils::read_varint of the *)
(* bytes written, followed in the buffer by one more byte.  u64 values are *)
(* kept as their 64 bits, bit 0 the least significant.                     *)
(***************************************************************************)
BitPositions == 0 .. 63
\* `value as u64`: the i32 sign-extended
AsU64(v) ==
    [k \in BitPositions |->
        IF k < 31 THEN (Low31(v) \div 2 ^ k) % 2 ELSE IF v < 0 THEN 1 ELSE 0]
\* the u64 whose bits lo..hi are set: 0x7f is BitRange(0, 6)
BitRange(lo, hi) == [k \in BitPositions |-> IF lo <= k /\ k <= hi THEN 1 ELSE 0]
And64(a, b) == [k \in BitPositions |-> a[k] * b[k]]
Or64(a, b) == [k \in BitPositions |-> IF a[k] + b[k] > 0 THEN 1 ELSE 0]
Shl64(a, n) == [k \in BitPositions |-> IF k >= n THEN a[k - n] ELSE 0]
Shr64(a, n) == [k \in BitPositions |-> IF k + n <= 63 THEN a[k + n] ELSE 0]
\* u64::leading_zeros
LeadingZeros(a) ==
    IF \A k \in BitPositions : a[k] = 0 THEN 64
    ELSE 63 - (CHOOSE k \in BitPositions : a[k] = 1 /\ \A j \in BitPositions : j > k => a[j] = 0)
\* 0x8080808080808080
Msbs == [k \in BitPositions |-> IF k % 8 = 7 THEN 1 ELSE 0]
\* u64::to_le_bytes
ToLeBytes(a) ==
    [j \in 1 .. 8 |->
        a[8 * j - 8] + 2 * a[8 * j - 7] + 4 * a[8 * j - 6] + 8 * a[8 * j - 5]
        + 16 * a[8 * j - 4] + 32 * a[8 * j - 3] + 64 * a[8 * j - 2] + 128 * a[8 * j - 1]]

\* stage1: the 7-bit groups of x spread over the bytes of a u64
Stage1(x) ==
    Or64(And64(x, BitRange(0, 6)),
    Or64(Shl64(And64(x, BitRange(7, 13)), 1),
    Or64(Shl64(And64(x, BitRange(14, 20)), 2),
    Or64(Shl64(And64(x, BitRange(21, 27)), 3),
         Shl64(And64(x, BitRange(28, 31)), 4)))))

\* bytes_needed = 8 - ((leading - 1) >> 3)
BytesNeededAlways5(stage1) == VarintMax
BytesNeeded(stage1) == 8 - ((LeadingZeros(stage1) - 1) \div 8)

\* utils::write_varint: the bytes put on the buffer
write_varint(value) ==
    LET stage1  == Stage1(AsU64(value))
        needed  == BytesNeeded(stage1)
        msbmask == Shr64(BitRange(0, 63), ((8 - needed + 1) * 8) - 1)
        merged  == Or64(stage1, And64(Msbs, msbmask))
    IN  SubSeq(ToLeBytes(merged), 1, needed)

\* values around every change of the encoded length and of the sign
VarintInputs ==
    UNION {{2 ^ k, 2 ^ k - 1, 2 ^ k + 1, 0 - 2 ^ k, 0 - (2 ^ k + 1)} : k \in 0 .. 30}
    \cup {0, MaxI32, MinI32, MinI32 + 1}

WriteVarint == Pending("write_varint") /\ Return(write_varint(calc.arg))

\* read_varint on a buffer that starts with the bytes just written and
\* holds one more byte after them
ReadVarintBack ==
    /\ calc.op = "write_varint" /\ calc.done
    /\ \E trail \in ByteValues :
         calc' = [op |-> "read_varint", arg |-> calc.res, done |-> TRUE,
                  value |-> calc.arg, trail |-> trail,
                  res |-> read_varint(Append(calc.res, trail), Len(calc.res) + 1)]
    /\ CalcOnly

InitVarint == InitCall /\ \E v \in VarintInputs : calc = Call("write_varint", v)

NextVarint == WriteVarint \/ ReadVarintBack

SpecVarint == InitVarint /\ [][NextVarint]_vars

(***************************************************************************)
(* SpecPack: the block array of one sub-chunk packed into 64-bit words as  *)
(* Chunk::serialize_to_chunk_packet packs it, and the words unpacked as    *)
(* SubChunk::decode_blocks unpacks them with a palette of the same length. *)
(* A word is kept as its 64 bits, bit 0 the least significant.             *)
(***************************************************************************)
\* vec![0u16; 4096]
BlockCount == 4096
BlockIndexes == 0 .. (BlockCount - 1)

RECURSIVE ILog2(_)
\* usize::ilog2 of a positive number
ILog2(n) == IF n < 2 THEN 0 ELSE 1 + ILog2(n \div 2)
\* (n as f32).log2().ceil()
CeilLog2(n) == IF 2 ^ ILog2(n) = n THEN ILog2(n) ELSE ILog2(n) + 1
Max(a, b) == IF a >= b THEN a ELSE b
Min(a, b) == IF a <= b THEN a ELSE b
CeilDiv(a, b) == (a + b - 1) \div b

\* bpe of the encoder
EncoderBits(len) == Max(CeilLog2(len), 4)
\* bits of the decoder
DecoderBits(len) == Max(ILog2(len) + 1, 4)

\* blocks.iter().unique().sorted()
PaletteOf(blocks) == {blocks[k] : k \in BlockIndexes}
\* palette.iter().position(|&b| *b == id) in the sorted palette
Position(palette, id) == Cardinality({q \in palette : q < id})

\* bit t of a u64 that holds a u16
BitOf(v, t) == IF t > 15 THEN 0 ELSE (v \div 2 ^ t) % 2

\* data[i]: e |= index << (bpe * j) for the entries j of word i
PackWord(idx, bpe, per, i) ==
    [b \in BitPositions |->
        \* only the entries with b - bpe * j in 0 .. 15 can set bit b
        IF \E j \in Max(0, CeilDiv(b - 15, bpe)) .. Min(per - 1, b \div bpe) :
              /\ i * per + j < BlockCount
              /\ BitOf(idx[i * per + j], b - bpe * j) = 1
        THEN 1 ELSE 0]

\* the data array of the packet
PackBlocks(idx, len) ==
    LET bpe == EncoderBits(len)
        per == 64 \div bpe
        num == CeilDiv(BlockCount, per)
    IN  [i \in 0 .. (num - 1) |-> PackWord(idx, bpe, per, i)]

RECURSIVE FieldOf(_, _, _)
\* (val & mask) for val = word >> from, mask = (1 << bits) - 1
FieldOf(word, from, bits) ==
    IF bits = 0 THEN 0
    ELSE (IF from <= 63 THEN word[from] ELSE 0) + 2 * FieldOf(word, from + 1, bits - 1)

\* SubChunk::decode_blocks: decode_state of every word, appended
decode_blocks(len, states) ==
    LET bits == DecoderBits(len)
        per  == 64 \div bits
        num  == Cardinality(DOMAIN states)
    IN  [k \in 0 .. (num * per - 1) |-> FieldOf(states[k \div per], (k % per) * bits, bits)]

\* the lengths of the palettes tried: around the powers of two
PaletteLens == {1, 2, 3, 15, 16, 17, 31, 32, 33, 64}
\* how the block ids follow each other in the array
Strides == {1, 7}
\* the lowest block id of the sub-chunk: 0 is air
Bases == {0, 1}
BlocksOf(len, stride, base) == [k \in BlockIndexes |-> base + ((k * stride) % len)]

\* the packet holds no data array if the sub-chunk is all air
AllAir(blocks) == \A k \in BlockIndexes : blocks[k] = 0

\* the palette of the sub-chunk
CollectPalette ==
    /\ Pending("pack") /\ "palette" \notin DOMAIN calc
    /\ calc' = [op |-> "pack", arg |-> calc.arg, done |-> FALSE,
                air |-> AllAir(calc.arg), palette |-> PaletteOf(calc.arg)]
    /\ CalcOnly

\* the position of every block in the palette
IndexBlocks ==
    /\ Pending("pack") /\ "palette" \in DOMAIN calc /\ "idx" \notin DOMAIN calc
    /\ calc' = [op |-> "pack", done |-> FALSE, air |-> calc.air,
                palette |-> calc.palette, len |-> Cardinality(calc.palette),
                idx |-> [k \in BlockIndexes |-> Position(calc.palette, calc.arg[k])]]
    /\ CalcOnly

\* the data array, or the three zero bytes of a sub-chunk of air
PackData ==
    /\ Pending("pack") /\ "idx" \in DOMAIN calc
    /\ calc' = [op |-> "pack", len |-> calc.len, idx |-> calc.idx, done |-> TRUE,
                air |-> calc.air, bpe |-> IF calc.air THEN 0 ELSE EncoderBits(calc.len),
                res |-> IF calc.air THEN <<>> ELSE PackBlocks(calc.idx, calc.len)]
    /\ CalcOnly

\* decode_blocks of the data array with a palette of the length written
DecodeBlocks ==
    /\ calc.op = "pack" /\ calc.done /\ ~calc.air
    /\ calc' = [op |-> "decode_blocks", len |-> calc.len, idx |-> calc.idx, done |-> TRUE,
                bpe |-> calc.bpe, bits |-> DecoderBits(calc.len),
                res |-> decode_blocks(calc.len, calc.res)]
    /\ CalcOnly

InitPack ==
    /\ InitCall
    /\ \E len \in PaletteLens, stride \in Strides, base \in Bases :
         calc = Call("pack", BlocksOf(len, stride, base))

NextPack == CollectPalette \/ IndexBlocks \/ PackData \/ DecodeBlocks

SpecPack == InitPack /\ [][NextPack]_vars

(***************************************************************************)
(* SpecNbt and SpecNbtParse: the NBT codec of nbt.rs.  A tag is the pair   *)
(* of its type id and its value; an i64 and the bits of an f64 are kept    *)
(* as their two 32-bit halves, the bits of an f32 as an i32; a string is   *)
(* the sequence of its ASCII bytes; a compound is a function from its      *)
(* names to tags.  A buffer is a sequence of bytes.                        *)
(***************************************************************************)
TagEnd == <<0>>
TagInvalid == <<0 - 1>>
Tagged(k, v) == <<k, v>>
Kind(tag) == tag[1]
Val(tag) == tag[2]

\* TagType::from_id
from_id(b) == IF b <= 12 THEN b ELSE 0 - 1
\* Tag::get_type_id
get_type_id(tag) == IF Kind(tag) \in 0 .. 12 THEN Kind(tag) ELSE 0

\* put_i8 / get_i8
I8Bytes(v) == <<v % 256>>
I8From(b) == IF b[1] >= 128 THEN b[1] - 256 ELSE b[1]
\* put_u16 of `len as u16` / get_u16
U16Bytes(v) == <<(v % 65536) \div 256, v % 256>>
U16From(b) == b[1] * 256 + b[2]
\* put_i16 / get_i16
I16Bytes(v) == U16Bytes(v)
I16From(b) == IF b[1] >= 128 THEN U16From(b) - 65536 ELSE U16From(b)
\* put_i32 / get_i32
I32Bytes(v) ==
    LET u == Low31(v)
    IN  <<(u \div 16777216) + (IF v < 0 THEN 128 ELSE 0),
          (u \div 65536) % 256, (u \div 256) % 256, u % 256>>
I32From(b) ==
    FromBits((b[1] % 128) * 16777216 + b[2] * 65536 + b[3] * 256 + b[4], b[1] >= 128)
\* put_i64 / get_i64, put_f64 / get_f64
I64Bytes(v) == I32Bytes(v.hi) \o I32Bytes(v.lo)
I64From(b) == [hi |-> I32From(SubSeq(b, 1, 4)), lo |-> I32From(SubSeq(b, 5, 8))]

\* the bytes of a value of a fixed width
ScalarWidth(k) == IF k = 1 THEN 1 ELSE IF k = 2 THEN 2 ELSE IF k \in {3, 5} THEN 4 ELSE 8
ScalarBytes(k, v) ==
    IF k = 1 THEN I8Bytes(v)
    ELSE IF k = 2 THEN I16Bytes(v)
    ELSE IF k \in {3, 5} THEN I32Bytes(v)
    ELSE I64Bytes(v)
ScalarFrom(k, b) ==
    IF k = 1 THEN I8From(b)
    ELSE IF k = 2 THEN I16From(b)
    ELSE IF k \in {3, 5} THEN I32From(b)
    ELSE I64From(b)

RECURSIVE Flatten(_)
\* buf.put of every element in turn
Flatten(seqs) == IF seqs = <<>> THEN <<>> ELSE Head(seqs) \o Flatten(Tail(seqs))

RECURSIVE serialize_internal(_)
RECURSIVE SerializeList(_)
RECURSIVE SerializeEntries(_, _)
\* the byte strings that the tags of a list can be written as, in order
SerializeList(tags) ==
    IF tags = <<>> THEN {<<>>}
    ELSE {a \o b : a \in serialize_internal(Head(tags)), b \in SerializeList(Tail(tags))}
\* `for (k, v) in c`: a HashMap yields its entries in any order
SerializeEntries(c, names) ==
    IF names = {} THEN {<<>>}
    ELSE UNION {{<<get_type_id(c[n])>> \o U16Bytes(Len(n)) \o n \o a \o b :
                    a \in serialize_internal(c[n]),
                    b \in SerializeEntries(c, names \ {n})} : n \in names}
\* Tag::serialize_internal: every byte string it can put on the buffer
serialize_internal(tag) ==
    IF Kind(tag) \in {1, 2, 3, 4, 5, 6} THEN {ScalarBytes(Kind(tag), Val(tag))}
    ELSE IF Kind(tag) = 7 THEN {I32Bytes(Len(Val(tag))) \o Val(tag)}
    ELSE IF Kind(tag) = 8 THEN {U16Bytes(Len(Val(tag))) \o Val(tag)}
    ELSE IF Kind(tag) = 9 THEN
        {<<get_type_id(IF Val(tag) = <<>> THEN TagEnd ELSE Val(tag)[1])>> \o I32Bytes(Len(Val(tag))) \o a :
            a \in SerializeList(Val(tag))}
    ELSE IF Kind(tag) = 10 THEN {a \o <<0>> : a \in SerializeEntries(Val(tag), DOMAIN Val(tag))}
    ELSE IF Kind(tag) = 11 THEN
        {I32Bytes(Len(Val(tag))) \o Flatten([j \in DOMAIN Val(tag) |-> I32Bytes(Val(tag)[j])])}
    ELSE IF Kind(tag) = 12 THEN
        {I32Bytes(Len(Val(tag))) \o Flatten([j \in DOMAIN Val(tag) |-> I64Bytes(Val(tag)[j])])}
    ELSE {<<>>}

\* Tag::serialize
nbt_serialize(tag, is_network_1_20_2_plus) ==
    {<<get_type_id(tag)>> \o (IF is_network_1_20_2_plus THEN <<>> ELSE U16Bytes(0)) \o a :
        a \in serialize_internal(tag)}

\* a read beyond the end of the buffer, or a slice beyond it, panics
Panicked == [ok |-> FALSE]
Parsed(tag, rest) == [ok |-> TRUE, tag |-> tag, rest |-> rest]
Drop(data, n) == SubSeq(data, n + 1, Len(data))
Take(data, n) == SubSeq(data, 1, n)

\* Tag::parse_string
parse_string(data) ==
    IF Len(data) < 2 THEN Panicked
    ELSE LET length == U16From(data)
         IN  IF Len(data) - 2 < length THEN Panicked
             ELSE Parsed(SubSeq(data, 3, 2 + length), Drop(data, 2 + length))

RECURSIVE ParseNumbers(_, _, _, _)
\* `for _ in 0..size { value.push(data.get_i32()) }`, and so for get_i64
ParseNumbers(k, size, data, value) ==
    IF size <= 0 THEN Parsed(value, data)
    ELSE IF Len(data) < ScalarWidth(k) THEN Panicked
    ELSE ParseNumbers(k, size - 1, Drop(data, ScalarWidth(k)),
                      Append(value, ScalarFrom(k, Take(data, ScalarWidth(k)))))

RECURSIVE parse_tag(_, _)
RECURSIVE ParseList(_, _, _, _)
RECURSIVE ParseEntries(_, _)
\* `for _ in 0..size { value.push(Self::parse_tag(tag_type, data)) }`
ParseList(tag_type, size, data, value) ==
    IF size <= 0 THEN Parsed(Tagged(9, value), data)
    ELSE LET r == parse_tag(tag_type, data)
         IN  IF ~r.ok THEN Panicked
             ELSE ParseList(tag_type, size - 1, r.rest, Append(value, r.tag))
\* the loop of the compound: entries up to the End type
ParseEntries(data, value) ==
    IF data = <<>> THEN Panicked
    ELSE IF from_id(data[1]) = 0 THEN Parsed(Tagged(10, value), Drop(data, 1))
    ELSE LET name == parse_string(Drop(data, 1))
         IN  IF ~name.ok THEN Panicked
             ELSE LET r == parse_tag(from_id(data[1]), name.rest)
                  IN  IF ~r.ok THEN Panicked
                      ELSE ParseEntries(r.rest,
                               [n \in DOMAIN value \cup {name.tag} |->
                                   IF n = name.tag THEN r.tag ELSE value[n]])
\* Tag::parse_tag
parse_tag(tag_type, data) ==
    IF tag_type = 0 THEN Parsed(TagEnd, data)
    ELSE IF tag_type \in {1, 2, 3, 4, 5, 6} THEN
        IF Len(data) < ScalarWidth(tag_type) THEN Panicked
        ELSE Parsed(Tagged(tag_type, ScalarFrom(tag_type, Take(data, ScalarWidth(tag_type)))),
                    Drop(data, ScalarWidth(tag_type)))
    ELSE IF tag_type = 7 THEN
        IF Len(data) < 4 THEN Panicked
        ELSE LET size == I32From(Take(data, 4))
             \* a negative size is beyond every buffer after `as usize`
             IN  IF size < 0 \/ Len(data) - 4 < size THEN Panicked
                 ELSE Parsed(Tagged(7, SubSeq(data, 5, 4 + size)), Drop(data, 4 + size))
    ELSE IF tag_type = 8 THEN
        LET r == parse_string(data)
        IN  IF ~r.ok THEN Panicked ELSE Parsed(Tagged(8, r.tag), r.rest)
    ELSE IF tag_type = 9 THEN
        IF Len(data) < 5 THEN Panicked
        ELSE ParseList(from_id(data[1]), I32From(SubSeq(data, 2, 5)), Drop(data, 5), <<>>)
    ELSE IF tag_type = 10 THEN ParseEntries(data, <<>>)
    ELSE IF tag_type \in {11, 12} THEN
        IF Len(data) < 4 THEN Panicked
        ELSE LET r == ParseNumbers(IF tag_type = 11 THEN 3 ELSE 4, I32From(Take(data, 4)),
                                   Drop(data, 4), <<>>)
             IN  IF ~r.ok THEN Panicked ELSE Parsed(Tagged(tag_type, r.tag), r.rest)
    ELSE Parsed(TagInvalid, data)

\* Tag::parse_nbt
ParseNbtNamed(data, no_root_name) ==
    IF data = <<>> THEN Panicked
    ELSE LET name == parse_string(Drop(data, 1))
         IN  IF ~name.ok THEN Panicked ELSE parse_tag(from_id(data[1]), name.rest)
parse_nbt(data, no_root_name) ==
    IF data = <<>> THEN Panicked
    ELSE IF ~no_root_name THEN
        LET name == parse_string(Drop(data, 1))
        IN  IF ~name.ok THEN Panicked ELSE parse_tag(from_id(data[1]), name.rest)
    ELSE parse_tag(from_id(data[1]), Drop(data, 1))

\* how deep lists and compounds are nested in the tags tried
MaxNest == 2

\* values at the ends of the ranges, and those of test_nbt
Leaves ==
    {Tagged(1, v) : v \in {0 - 128, 0, 127}}
    \cup {Tagged(2, v) : v \in {0 - 32768, 3453, 32767}}
    \cup {Tagged(3, v) : v \in {MinI32, 0 - 1, 34543346}}
    \cup {Tagged(4, v) : v \in {[hi |-> 10157, lo |-> 0 - 98765], [hi |-> MinI32, lo |-> 0]}}
    \cup {Tagged(5, v) : v \in {1051774403, 0 - 1}}
    \cup {Tagged(6, v) : v \in {[hi |-> 1071446674, lo |-> MaxI32]}}
    \cup {Tagged(7, v) : v \in {<<>>, <<0, 1, 2, 255>>}}
    \cup {Tagged(8, v) : v \in {<<>>, <<97, 98>>}}
    \cup {Tagged(11, v) : v \in {<<>>, <<1, 0 - 2>>}}
    \cup {Tagged(12, v) : v \in {<<>>, <<[hi |-> 797, lo |-> 0 - 1], [hi |-> 0, lo |-> 1]>>}}

NameA == <<97>>
NameB == <<98, 99>>

\* lists of one type and compounds with unique names around the tags of s
Nest(s) ==
    {Tagged(9, <<>>), Tagged(10, <<>>)}
    \cup {Tagged(9, <<a>>) : a \in s}
    \cup UNION {{Tagged(9, <<a, b>>) : b \in {x \in Leaves \cup {a} : Kind(x) = Kind(a)}} : a \in s}
    \cup {Tagged(10, [n \in {NameA} |-> a]) : a \in s}
    \cup {Tagged(10, [n \in {NameA, NameB} |-> IF n = NameA THEN a ELSE Tagged(1, 0)]) : a \in s}

RECURSIVE TagsAt(_)
TagsAt(depth) == IF depth = 0 THEN Leaves ELSE Leaves \cup Nest(TagsAt(depth - 1))

\* the root tags: a root may be the End tag
Roots == TagsAt(MaxNest) \cup {TagEnd}

Serialize ==
    /\ Pending("serialize")
    /\ \E bytes \in nbt_serialize(calc.arg.tag, calc.arg.x) : Return(bytes)

\* parse_nbt in the same mode on a buffer that starts with the bytes
\* written and holds one more byte after them
ParseBack ==
    /\ calc.op = "serialize" /\ calc.done
    /\ \E trail \in ByteValues :
         calc' = [op |-> "parse_nbt", arg |-> calc.arg, done |-> TRUE, trail |-> trail,
                  res |-> parse_nbt(Append(calc.res, trail), calc.arg.x)]
    /\ CalcOnly

InitNbt ==
    /\ InitCall
    /\ \E tag \in Roots, x \in BOOLEAN : calc = Call("serialize", [tag |-> tag, x |-> x])

NextNbt == Serialize \/ ParseBack

SpecNbt == InitNbt /\ [][NextNbt]_vars

\* the size fields tried, and the types of the elements of a list
SizeFields == {MinI32, 0 - 2, 0 - 1, 0, 1, 2}
ElementTypes == {0, 1, 10}
\* what follows the size field in the buffer
MaxContent == 16
Contents == {[j \in 1 .. n |-> 0] : n \in {0, 1, 8, MaxContent}}
\* the tag types that carry a size field
SizedTypes == {7, 9, 11, 12}

\* a buffer that holds one tag with a size field, as Tag::parse or
\* Tag::parse_network receives it
SizedBuffer(tag_type, element, size, content, x) ==
    <<tag_type>> \o (IF x THEN <<>> ELSE U16Bytes(0))
    \o (IF tag_type = 9 THEN <<element>> ELSE <<>>) \o I32Bytes(size) \o content

ParseNbt == Pending("parse") /\ Return(parse_nbt(calc.arg.data, calc.arg.x))

InitNbtParse ==
    /\ InitCall
    /\ \E tag_type \in SizedTypes, element \in ElementTypes, size \in SizeFields,
          content \in Contents, x \in BOOLEAN :
         calc = Call("parse", [type |-> tag_type, size |-> size, x |-> x,
                               data |-> SizedBuffer(tag_type, element, size, content, x)])

NextNbtParse == ParseNbt

SpecNbtParse == InitNbtParse /\ [][NextNbtParse]_vars

(***************************************************************************)
(* SpecPlayEntry: connection 1, of any version, is in Config after a       *)
(* handshake and a login acknowledgement and enters Play; the keepalive    *)
(* task and the chunk task run beside the main handler and the writer.     *)
(***************************************************************************)
InitPlayEntry ==
    /\ task = [c \in Conns |-> IF c = 1 THEN "running" ELSE "unaccepted"]
    /\ pc = [c \in Conns |-> "idle"]
    /\ stage = [c \in Conns |-> IF c = 1 THEN "Config" ELSE "Handshake"]
    /\ \E num \in ProtocolNumbers :
         /\ protocol = [c \in Conns |-> IF c = 1 THEN num ELSE 0]
         /\ version = [c \in Conns |-> IF c = 1 THEN VersionFromId(num) ELSE "Unknown"]
    /\ username = [c \in Conns |-> OfflineName]
    /\ authNonce = [c \in Conns |-> NoNonce]
    /\ profile = [c \in Conns |-> PlaceholderProfile]
    /\ cipher = [c \in Conns |-> FALSE]
    /\ sent = [c \in Conns |-> <<>>]
    /\ wire = [c \in Conns |-> <<>>]
    /\ extra = [c \in Conns |-> 0]
    /\ handshakes = [c \in Conns |-> IF c = 1 THEN 1 ELSE 0]
    /\ sessionReqs = [c \in Conns |-> 0]
    /\ ka = [c \in Conns |-> "none"]
    /\ ck = [c \in Conns |-> CkNone]
    /\ chatMsg = [c \in Conns |-> NoLine]
    /\ chats = [c \in Conns |-> 0]
    /\ statusReqs = [c \in Conns |-> <<>>]
    /\ lastFrame = [c \in Conns |-> IF c = 1
                                     THEN [stage |-> "Login", id |-> PacketIdOf.EnterConfiguration]
                                     ELSE NoFrame]
    /\ InitManager
    /\ InitIdle

NextPlayEntry ==
    \E c \in Conns :
        \/ HandleReady(c)
        \/ Greet(c)
        \/ \E line \in ChatLines : HandleChat(c, line)
        \/ ChatCheck(c)
        \/ KeepAliveTick(c)
        \/ ChunkStep(c)
        \/ WritePacket(c)
        \/ ClientClose(c)

SpecPlayEntry == InitPlayEntry /\ [][NextPlayEntry]_vars

(***************************************************************************)
(* SpecCipher: one connection from accept through Login, with the write    *)
(* branch of the select loop draining the queue between inbound frames.    *)
(***************************************************************************)
NextCipher ==
    \E c \in Conns :
        \/ \E num \in ProtocolNumbers, nextId \in NextStageIds : HandleHandshake(c, num, nextId)
        \/ \E name \in Names, nonce \in Nonces : HandleLoginHello(c, name, nonce)
        \/ \E decryptOk \in BOOLEAN, nonce \in Nonces, ans \in SessionAnswers :
               HandleLoginKey(c, decryptOk, nonce, ans)
        \/ HandleEnterConfiguration(c)
        \/ WritePacket(c)

SpecCipher == Init /\ [][NextCipher]_vars

(***************************************************************************)
(* SpecKick: PacketHandler::kick called on a connection in whatever stage  *)
(* the handshake, login and configuration handlers have brought it to.     *)
(***************************************************************************)
KickReasons == {TextOutdated, TextVerifyToken, TextProfileFailed, TextNotExist, TextAlreadyUsed}

\* a handler calls kick(reason) on connection c
KickCall(c, reason) ==
    /\ MainIdle(c)
    /\ Charge(c, TRUE)
    /\ calc' = Call("kick", <<c, reason>>)
    /\ UNCHANGED <<task, pc, stage, version, username, authNonce, profile, cipher,
                   sent, wire, handshakes, sessionReqs, ka, ck, chatMsg, chats>>
    /\ UNCHANGED authVars
    /\ UNCHANGED <<protocol, statusReqs, lastFrame, net, rd, region, writer>>

\* match self.get_stage() { .. => self.send_packet(..), _ => Ok(false) };
\* send_packet answers Ok(true) once the packet is on the channel
KickReturn ==
    /\ Pending("kick")
    /\ LET c == calc.arg[1]
           pkts == Kick(stage[c], calc.arg[2])
       IN  /\ Enqueue(c, pkts)
           /\ calc' = [op |-> calc.op, arg |-> calc.arg, done |-> TRUE, res |-> pkts # <<>>]
    /\ UNCHANGED <<task, pc, stage, version, username, authNonce, profile, cipher,
                   wire, extra, handshakes, sessionReqs, ka, ck, chatMsg, chats>>
    /\ UNCHANGED authVars
    /\ UNCHANGED <<protocol, statusReqs, lastFrame, net, rd, region, writer>>

\* kick is a synchronous method on &mut self: nothing of the server runs
\* between its call and its return
NextKick ==
    \/ /\ ~Pending("kick")
       /\ \E c \in Conns :
            \/ \E num \in ProtocolNumbers, nextId \in NextStageIds : HandleHandshake(c, num, nextId)
            \/ \E decryptOk \in BOOLEAN, nonce \in Nonces, ans \in SessionAnswers :
                   HandleLoginKey(c, decryptOk, nonce, ans)
            \/ HandleEnterConfiguration(c)
            \/ HandleReady(c)
            \/ Greet(c)
            \/ \E reason \in KickReasons : KickCall(c, reason)
    \/ KickReturn

SpecKick == Init /\ [][NextKick]_vars

(***************************************************************************)
(* SpecLocks: the chat handlers and keepalive tasks of the connections in  *)
(* Play and the web handlers create_code and poll_login compete for the    *)
(* AuthManager mutex and the handler mutexes.  tokio's Mutex queues its    *)
(* waiters first-in first-out, so a waiter is served once the mutex has    *)
(* been released often enough: strong fairness of the acquiring steps.     *)
(***************************************************************************)
\* the connections have been answered "does not exist" for all but their
\* last chat line and have been sent all but their last keepalive; code1
\* was created and polled by web clients that have gone away since, code2
\* is not created yet
Repeat(p, n) == [i \in 1 .. n |-> p]
InitLocks ==
    /\ task = [c \in Conns |-> "running"]
    /\ pc = [c \in Conns |-> "idle"]
    /\ stage = [c \in Conns |-> "Play"]
    /\ version = [c \in Conns |-> "V1_21"]
    /\ profile = [c \in Conns |-> IF c = 1 THEN "Bob" ELSE "Eve"]
    /\ username = profile
    /\ authNonce = [c \in Conns |-> "n1"]
    /\ cipher = [c \in Conns |-> TRUE]
    /\ sent = [c \in Conns |-> PlayHistory("n1", profile[c])
                                \o Repeat(Pkt("KeepAlive", ""), MaxKeepAlive - 1)
                                \o Repeat(Pkt("GameMessage", TextNotExist), MaxChat - 1)]
    /\ wire = [c \in Conns |-> <<>>]
    /\ extra = [c \in Conns |-> 0]
    /\ handshakes = [c \in Conns |-> 1]
    /\ sessionReqs = [c \in Conns |-> 1]
    /\ ka = [c \in Conns |-> "running"]
    /\ ck = [c \in Conns |-> CkStart]
    /\ chatMsg = [c \in Conns |-> NoLine]
    /\ chats = [c \in Conns |-> MaxChat - 1]
    /\ protocol = [c \in Conns |-> VersionGetId("V1_21")]
    /\ statusReqs = [c \in Conns |-> <<>>]
    /\ lastFrame = [c \in Conns |-> IF chats[c] > 0
                                     THEN [stage |-> "Play", id |-> PacketIdOf.Chat]
                                     ELSE [stage |-> "Config", id |-> PacketIdOf.Ready]]
    /\ codes = [k \in Codes |-> IF k = "code1"
                                 THEN [known |-> TRUE, used |-> FALSE, chan |-> MaxStreams - 1]
                                 ELSE NoCode]
    /\ nextGen = [k \in Codes |-> IF k = "code1" THEN MaxStreams - 1 ELSE 0]
    /\ rxAlive = [k \in Codes |-> {}]
    /\ delivered = [k \in Codes |-> <<>>]
    /\ managerLock = 0
    /\ InitIdle

NextLocks ==
    \/ \E c \in Conns :
        \/ \E line \in ChatLines : HandleChat(c, line)
        \/ ChatCheck(c)
        \/ ChatUse(c)
        \/ ChatSend(c)
        \/ ChatKick(c)
        \/ KeepAliveTick(c)
    \/ \E code \in Codes : CreateCode(code)
    \/ \E code \in Codes : PollLogin(code)

SpecLocks ==
    /\ InitLocks
    /\ [][NextLocks]_vars
    /\ \A c \in Conns :
        /\ SF_vars(ChatCheck(c))
        /\ WF_vars(ChatUse(c))
        /\ WF_vars(ChatSend(c))
        /\ WF_vars(ChatKick(c))

(***************************************************************************)
(* SpecText: the style setters of one TextComponent (text.rs), called in   *)
(* any order on a new component.  An Option<bool> is <<>> for None and     *)
(* <<b>> for Some(b).                                                      *)
(***************************************************************************)
StyleFields == {"bold", "italic", "underlined", "strikethrough", "obfuscated"}

\* TextComponent::new: every style field is None
TextNew == [f \in StyleFields |-> <<>>]

set_bold(t, bold) == [t EXCEPT !.bold = <<bold>>]
set_italic(t, italic) == [t EXCEPT !.bold = <<italic>>]
set_underlined(t, underlined) == [t EXCEPT !.underlined = <<underlined>>]
set_strikethrough(t, strikethrough) == [t EXCEPT !.strikethrough = <<strikethrough>>]
set_obfuscated(t, obfuscated) == [t EXCEPT !.obfuscated = <<obfuscated>>]

\* TextComponent::to_nbt: the style entries of the compound, name and Byte
to_nbt(t) == {<<f, IF t[f][1] THEN 1 ELSE 0>> : f \in {g \in StyleFields : t[g] # <<>>}}

\* one setter is called on the component; called keeps the setters called
\* so far and last the one called in this step
SetStyle(field, after) ==
    /\ calc.op = "text"
    /\ calc' = [op |-> "text", arg |-> after, called |-> calc.called \cup {field},
                last |-> field, done |-> FALSE]
    /\ CalcOnly
SetBold(b) == SetStyle("bold", set_bold(calc.arg, b))
SetItalic(b) == SetStyle("italic", set_italic(calc.arg, b))
SetUnderlined(b) == SetStyle("underlined", set_underlined(calc.arg, b))
SetStrikethrough(b) == SetStyle("strikethrough", set_strikethrough(calc.arg, b))
SetObfuscated(b) == SetStyle("obfuscated", set_obfuscated(calc.arg, b))

InitText ==
    /\ InitCall
    /\ calc = [op |-> "text", arg |-> TextNew, called |-> {}, last |-> "none", done |-> FALSE]

NextText ==
    \E b \in BOOLEAN :
        \/ SetBold(b)
        \/ SetItalic(b)
        \/ SetUnderlined(b)
        \/ SetStrikethrough(b)
        \/ SetObfuscated(b)

SpecText == InitText /\ [][NextText]_vars

(***************************************************************************)
(* SpecShared: two connections, each spawned by Server::start with its own *)
(* handler and queue.  Connection 1 is newly accepted and logs in;         *)
(* connection 2 is in Play and has been answered "does not exist" for all  *)
(* but its last chat line.  code1 is polled by a web client that listens,  *)
(* code2 is created and not polled.  The AuthManager is all they share.    *)
(***************************************************************************)
InitShared ==
    /\ task = [c \in Conns |-> "running"]
    /\ pc = [c \in Conns |-> "idle"]
    /\ stage = [c \in Conns |-> IF c = 1 THEN "Handshake" ELSE "Play"]
    /\ version = [c \in Conns |-> IF c = 1 THEN "Unknown" ELSE "V1_21"]
    /\ username = [c \in Conns |-> IF c = 1 THEN OfflineName ELSE "Eve"]
    /\ authNonce = [c \in Conns |-> IF c = 1 THEN NoNonce ELSE "n1"]
    /\ profile = [c \in Conns |-> IF c = 1 THEN PlaceholderProfile ELSE "Eve"]
    /\ cipher = [c \in Conns |-> c # 1]
    /\ sent = [c \in Conns |-> IF c = 1 THEN <<>>
                               ELSE PlayHistory("n1", "Eve")
                                    \o Repeat(Pkt("GameMessage", TextNotExist), MaxChat - 1)]
    /\ wire = [c \in Conns |-> <<>>]
    /\ extra = [c \in Conns |-> 0]
    /\ handshakes = [c \in Conns |-> IF c = 1 THEN 0 ELSE 1]
    /\ sessionReqs = [c \in Conns |-> IF c = 1 THEN 0 ELSE 1]
    /\ ka = [c \in Conns |-> IF c = 1 THEN "none" ELSE "running"]
    /\ ck = [c \in Conns |-> IF c = 1 THEN CkNone ELSE CkStart]
    /\ chatMsg = [c \in Conns |-> NoLine]
    /\ chats = [c \in Conns |-> IF c = 1 THEN 0 ELSE MaxChat - 1]
    /\ protocol = [c \in Conns |-> IF c = 1 THEN 0 ELSE VersionGetId("V1_21")]
    /\ statusReqs = [c \in Conns |-> <<>>]
    /\ lastFrame = [c \in Conns |-> IF c = 1 THEN NoFrame
                                    ELSE IF chats[c] > 0
                                    THEN [stage |-> "Play", id |-> PacketIdOf.Chat]
                                    ELSE [stage |-> "Config", id |-> PacketIdOf.Ready]]
    /\ codes = [k \in Codes |-> IF k = "code1"
                                 THEN [known |-> TRUE, used |-> FALSE, chan |-> MaxStreams]
                                 ELSE NewCode]
    /\ nextGen = [k \in Codes |-> IF k = "code1" THEN MaxStreams ELSE 0]
    /\ rxAlive = [k \in Codes |-> IF k = "code1" THEN {MaxStreams} ELSE {}]
    /\ delivered = [k \in Codes |-> <<>>]
    /\ managerLock = 0
    /\ InitIdle

NextShared ==
    \E c \in Conns :
        \/ \E num \in ProtocolNumbers, nextId \in NextStageIds : HandleHandshake(c, num, nextId)
        \/ \E name \in Names, nonce \in Nonces : HandleLoginHello(c, name, nonce)
        \/ \E decryptOk \in BOOLEAN, nonce \in Nonces, ans \in SessionAnswers :
               HandleLoginKey(c, decryptOk, nonce, ans)
        \/ HandleEnterConfiguration(c)
        \/ HandleReady(c)
        \/ Greet(c)
        \/ \E line \in ChatLines : HandleChat(c, line)
        \/ ChatCheck(c)
        \/ ChatUse(c)
        \/ ChatSend(c)
        \/ ChatKick(c)

SpecShared == InitShared /\ [][NextShared]_vars

(***************************************************************************)
(* Properties.                                                             *)
(***************************************************************************)
DisconnectOutdated == Pkt("LoginDisconnect", TextOutdated)
DisconnectVerifyToken == Pkt("LoginDisconnect", TextVerifyToken)
DisconnectProfileFailed == Pkt("LoginDisconnect", TextProfileFailed)
DisconnectAuthorized == Pkt("PlayDisconnect", TextAuthorized)
MessageNotExist == Pkt("GameMessage", TextNotExist)
MessageAlreadyUsed == Pkt("GameMessage", TextAlreadyUsed)
\* the keys of the AuthManager map
KnownCodes == {k \in Codes : codes[k].known}
\* connections that passed the check of on_chat for a code, or were sent on its channel
Accepted(code) ==
    {c \in Conns : pc[c] \in {"chat_use", "chat_send", "chat_kick"} /\ chatMsg[c] = code}
    \cup {delivered[code][i][3] : i \in DOMAIN delivered[code]}

\* C1: a chat line equal to a present, unused code marks the code used,
\* sends the connection's profile exactly once on the code's channel and
\* enqueues the PlayDisconnect "Authorization successful!", whether or not
\* a receiver was obtained for the code
C1_SuccessfulCodeUse ==
    [][\A c \in Conns :
          /\ (pc[c] = "chat_use" /\ pc'[c] # "chat_use")
                => (pc'[c] = "chat_send" /\ codes'[chatMsg[c]].used)
          /\ (pc[c] = "chat_send" /\ pc'[c] # "chat_send")
                => /\ pc'[c] = "chat_kick"
                   /\ Len(delivered'[chatMsg[c]]) = Len(delivered[chatMsg[c]]) + 1
                   /\ delivered'[chatMsg[c]][Len(delivered'[chatMsg[c]])][2] = profile[c]
          /\ (pc[c] = "chat_kick" /\ pc'[c] # "chat_kick")
                => sent'[c] = Append(sent[c], DisconnectAuthorized)
      ]_vars

C3_UnknownCode ==
    /\ [](\A line \in ChatLines :
            line \notin KnownCodes => UseCode(codes, line) = codes)
    /\ [][\A c \in Conns :
            (pc[c] = "chat_lock" /\ pc'[c] # "chat_lock" /\ chatMsg[c] \notin KnownCodes)
              => /\ codes' = codes /\ nextGen' = nextGen
                 /\ rxAlive' = rxAlive /\ delivered' = delivered
                 /\ sent'[c] = Append(sent[c], MessageNotExist)
                 /\ stage'[c] = "Play" /\ task'[c] = "running" /\ pc'[c] = "idle"
       ]_vars

C3_Witness ==
    \E c \in Conns :
        /\ sent[c][Len(sent[c])] = MessageNotExist
        /\ \E k \in Codes : ~codes[k].known

\* C4: a hasJoined answer other than 200 fails the login: the disconnect
\* "Failed to retrieve Mojang profile" reaches the client (the task that
\* has to write it is still running) and no LoginSuccess is enqueued, no
\* profile is set and no cipher is installed
C4_Non200FailsLogin ==
    \A c \in Conns :
        (sessionReqs[c] = 1 /\ CountPkt(sent[c], DisconnectProfileFailed) > 0)
          => /\ task[c] = "running"
             /\ ~HasType(sent[c], "LoginSuccess")
             /\ profile[c] = PlaceholderProfile
             /\ ~cipher[c]

\* C5: on a nonce mismatch the server enqueues the LoginDisconnect "Failed
\* to verify token", issues no hasJoined request and no LoginSuccess for
\* that response, and handles no packet received afterwards
C5_NonceMismatchFatal ==
    [][\A c \in Conns :
          /\ CountPkt(sent'[c], DisconnectVerifyToken) > CountPkt(sent[c], DisconnectVerifyToken)
                => /\ sent'[c] = Append(sent[c], DisconnectVerifyToken)
                   /\ sessionReqs'[c] = sessionReqs[c]
          /\ CountPkt(sent[c], DisconnectVerifyToken) > 0
                => /\ sent'[c] = sent[c] /\ stage'[c] = stage[c]
                   /\ sessionReqs'[c] = sessionReqs[c]
                   /\ profile'[c] = profile[c] /\ cipher'[c] = cipher[c]
      ]_vars

\* C6: a connection whose handshake selected Login with a version other
\* than 1.21 is sent exactly one LoginDisconnect "Outdated client" and
\* nothing else, whatever it sends afterwards
C6_OutdatedOneDisconnect ==
    \A c \in Conns :
        (stage[c] \in {"Login", "Config", "Play"} /\ version[c] # "V1_21")
          => sent[c] \in {<<>>, <<DisconnectOutdated>>}

\* the Config packets enqueued on a connection, in order
IsConfigPacket(p) ==
    p.type \in {"CustomPayload", "Features", "SelectKnownPacks",
                "DynamicRegistries", "Links", "Ready"}
ConfigPart(c) == SelectSeq(sent[c], IsConfigPacket)
\* brand, Features, SelectKnownPacks, DynamicRegistries+, Links?, Ready
StrictOrder(t) ==
    \A i \in DOMAIN t :
        IF i = 1 THEN t[i].type = "CustomPayload"
        ELSE <<t[i - 1].type, t[i].type>> \in
                {<<"CustomPayload", "Features">>, <<"Features", "SelectKnownPacks">>,
                 <<"SelectKnownPacks", "DynamicRegistries">>,
                 <<"DynamicRegistries", "DynamicRegistries">>,
                 <<"DynamicRegistries", "Links">>, <<"DynamicRegistries", "Ready">>,
                 <<"Links", "Ready">>}

\* C7: the Config packets are enqueued in the order brand, Features,
\* SelectKnownPacks, at least one DynamicRegistries, optionally Links,
\* Ready, with Ready once and last, for every order and multiplicity of the
\* client's client-info and known-packs packets
C7_ConfigOrder == \A c \in Conns : StrictOrder(ConfigPart(c))

\* the answers to client-info and to known-packs, one after the other
ReplyOrder(t, v) ==
    /\ \A i \in DOMAIN t :
        IF i = 1 THEN t[i].type \in {"CustomPayload", "DynamicRegistries"}
        ELSE <<t[i - 1].type, t[i].type>> \in
                {<<"CustomPayload", "Features">>,
                 <<"DynamicRegistries", "DynamicRegistries">>,
                 <<"Links", "Ready">>,
                 <<"Ready", "CustomPayload">>, <<"Ready", "DynamicRegistries">>}
                \cup (IF VersionGe(v, "V1_20_5")
                      THEN {<<"Features", "SelectKnownPacks">>,
                            <<"SelectKnownPacks", "CustomPayload">>,
                            <<"SelectKnownPacks", "DynamicRegistries">>}
                      ELSE {<<"Features", "CustomPayload">>,
                            <<"Features", "DynamicRegistries">>})
                \cup (IF VersionGe(v, "V1_21")
                      THEN {<<"DynamicRegistries", "Links">>}
                      ELSE {<<"DynamicRegistries", "Ready">>})
    /\ t # <<>> =>
         t[Len(t)].type \in
            (IF VersionGe(v, "V1_20_5") THEN {"SelectKnownPacks", "Ready"}
             ELSE {"Features", "Ready"})

\* C7, as the code orders the answers: each client-info is answered by
\* brand, Features and, from 1.20.5 on, SelectKnownPacks; each known-packs
\* by at least one DynamicRegistries, Links on 1.21, then Ready; the answers
\* follow each other in the order of the client's packets, so the claimed
\* order holds when a client of 1.20.5 or later sends client-info once,
\* then known-packs once
C7_ReplyOrder ==
    \A c \in Conns :
        /\ ReplyOrder(ConfigPart(c), version[c])
        /\ (/\ VersionGe(version[c], "V1_20_5")
            /\ CountType(sent[c], "CustomPayload") <= 1
            /\ CountType(sent[c], "Ready") <= 1
            /\ ConfigPart(c) # <<>> => ConfigPart(c)[1].type = "CustomPayload")
           => StrictOrder(ConfigPart(c))

C7_Witness ==
    \E c \in Conns :
        /\ CountType(sent[c], "Ready") = 2
        /\ CountType(sent[c], "CustomPayload") = 1
        /\ ConfigPart(c)[1].type = "DynamicRegistries"

\* C8: on every path into Play a keepalive task has been started
C8_KeepAliveOnPlayEntry ==
    \A c \in Conns : stage[c] = "Play" => ka[c] # "none"

\* C9: the version is Unknown until the handshake packet is handled, is set
\* by it and never changes afterwards; at most one handshake is handled
C9_VersionFixedByHandshake ==
    /\ [](\A c \in Conns :
            /\ handshakes[c] <= 1
            /\ handshakes[c] = 0 => version[c] = "Unknown" /\ stage[c] = "Handshake")
    /\ [][\A c \in Conns :
            /\ version'[c] # version[c] => handshakes[c] = 0 /\ handshakes'[c] = 1
            /\ handshakes'[c] # handshakes[c] => stage[c] = "Handshake" /\ stage'[c] # "Handshake"
       ]_vars

C9_Witness ==
    \E c \in Conns :
        /\ handshakes[c] = 1 /\ version[c] = "V1_21"
        /\ stage[c] = "Play" /\ extra[c] > 0

\* C10: the stage starts at Handshake and moves only along
\* Handshake->{Status, Login, Transfer, Invalid}, Login->Config,
\* Login->Play (versions before 1.20.2 only) and Config->Play
C10_StageTransitions ==
    /\ \A c \in Conns : stage[c] = "Handshake"
    /\ [][\A c \in Conns :
            stage'[c] # stage[c] =>
                \/ stage[c] = "Handshake" /\ stage'[c] \in {"Status", "Login", "Transfer", "Invalid"}
                \/ stage[c] = "Login" /\ stage'[c] = "Config"
                \/ stage[c] = "Login" /\ stage'[c] = "Play" /\ VersionLt(version[c], "V1_20_2")
                \/ stage[c] = "Config" /\ stage'[c] = "Play"
       ]_vars

C10_Witness ==
    \E c \in Conns :
        /\ stage[c] = "Play" /\ HasType(sent[c], "LoginSuccess")
        /\ VersionGe(version[c], "V1_20_2")

\* the ids of the versions of the enumeration other than the sentinel
SupportedIds == {VersionIds[i] : i \in 2 .. Len(VersionIds)}
\* the reply the client expects to a Status request, given the number n of its handshake
ExpectedEcho(r, n) ==
    IF r.type = "status" THEN PktXZ("StatusResponse", "status", n, 0)
    ELSE PktXZ("PingResponse", "payload", r.payload, 0)
EchoReplies(c, n) == [i \in 1 .. Len(statusReqs[c]) |-> ExpectedEcho(statusReqs[c][i], n)]

C17_UnhandledFrameNoEffect ==
    [][\A c \in Conns :
          (/\ lastFrame'[c] # lastFrame[c] \/ extra'[c] # extra[c]
           /\ lastFrame'[c].stage = stage[c]
           /\ lastFrame'[c].id \notin ArmIds(stage[c]))
            => /\ stage'[c] = stage[c] /\ version'[c] = version[c]
               /\ username'[c] = username[c] /\ profile'[c] = profile[c]
               /\ cipher'[c] = cipher[c] /\ sent'[c] = sent[c]
               /\ task'[c] = task[c]
      ]_vars

C17_Witness ==
    \E c \in Conns :
        /\ stage[c] = "Invalid" /\ lastFrame[c] = [stage |-> "Invalid", id |-> 0]
        /\ extra[c] = 1 /\ sent[c] = <<>>

\* C12: packets are written to the socket in the order in which they were
\* placed on the outbound queue, none lost and none duplicated, whatever
\* the interleaving of the main handler, the keepalive task and the chunk task
C12_WriteOrder ==
    \A c \in Conns :
        /\ Len(wire[c]) <= Len(sent[c])
        /\ \A i \in DOMAIN wire[c] : wire[c][i][1] = sent[c][i]

C12_Witness ==
    \E c \in Conns : \E i, j, k \in DOMAIN wire[c] :
        /\ i < j /\ j < k
        /\ wire[c][i][1].type = "KeepAlive"
        /\ wire[c][j][1].type = "GameMessage"
        /\ wire[c][k][1].type = "ChunkData"
        /\ Len(wire[c]) < Len(sent[c])

\* the connection task has left its loop or died
TaskEnded(c) == task[c] \in {"closed", "panicked"}
\* the two background tasks of a connection are not running
BackgroundStopped(c) ==
    /\ ka[c] \in {"none", "stopped"}
    /\ ck[c].pc \in {"none", "done", "panicked"}

\* C14: after the connection task has ended, its keepalive task and its
\* chunk task each eventually terminate
C14_BackgroundTasksStop ==
    \A c \in Conns : TaskEnded(c) ~> BackgroundStopped(c)

C14_Witness ==
    \E c \in Conns :
        /\ TaskEnded(c) /\ ka[c] = "stopped" /\ ck[c].pc = "panicked"
        /\ HasType(sent[c], "KeepAlive")

\* the packets kick produces
IsDisconnect(p) == p.type \in {"LoginDisconnect", "ConfigDisconnect", "PlayDisconnect"}

\* C18: once kick has enqueued a disconnect packet, that packet is the last
\* one written on the connection and no frame received after it is handled
C18_KickIsLast ==
    /\ [](\A c \in Conns : \A i \in DOMAIN wire[c] :
            IsDisconnect(wire[c][i][1]) => i = Len(wire[c]))
    /\ [][\A c \in Conns :
            (\E i \in DOMAIN sent[c] : IsDisconnect(sent[c][i]))
                => lastFrame'[c] = lastFrame[c] /\ chats'[c] = chats[c]
       ]_vars

\* the receivers handed out for a code by get_stream so far
Receivers(code) == 1 .. nextGen[code]
\* the receiver of channel g of a code has been sent a profile
Received(code, g) == \E i \in DOMAIN delivered[code] : delivered[code][i][1] = g

\* C19: a profile sent for a code goes to the receiver returned by the most
\* recent get_stream only, receivers of earlier calls get nothing and their
\* channel has no sender left; get_stream on an unknown code changes nothing
C19_LatestReceiverOnly ==
    /\ [](\A code \in Codes :
            /\ codes[code].chan \in {0} \cup Receivers(code)
            /\ codes[code].chan = nextGen[code])
    /\ [][\A code \in Codes :
            /\ delivered'[code] # delivered[code]
                 => /\ Len(delivered'[code]) = Len(delivered[code]) + 1
                    /\ delivered'[code][Len(delivered'[code])][1] = nextGen[code]
                    /\ nextGen'[code] = nextGen[code]
            /\ \A g \in Receivers(code) :
                 (g < nextGen'[code] /\ ~Received(code, g)) => ~Received(code, g)'
            /\ (~codes[code].known /\ ~codes'[code].known)
                 => /\ codes'[code] = codes[code] /\ nextGen'[code] = nextGen[code]
                    /\ rxAlive'[code] = rxAlive[code]
       ]_vars

C19_Witness ==
    \E code \in Codes :
        /\ nextGen[code] = 2 /\ rxAlive[code] = {1, 2}
        /\ Len(delivered[code]) = 1 /\ delivered[code][1][1] = 2

\* C15: every frame handed to the dispatcher holds exactly the bytes its
\* length prefix announces, read from the stream, and the decrypt cipher
\* has gone over exactly the bytes taken from the socket
C15_FramesExact ==
    /\ \A n \in DOMAIN rd.frames : rd.frames[n].read = rd.frames[n].len
    /\ cipher[1] => rd.decrypted = rd.consumed

\* a frame was dispatched in this step whose body was cut short or whose
\* length prefix went beyond 5 bytes
BadFrameStep ==
    /\ Len(rd'.frames) = Len(rd.frames) + 1
    /\ LET f == rd'.frames[Len(rd'.frames)]
       IN  f.read < f.len \/ f.prefix > VarintMax

\* C16: a length prefix of more than 5 bytes or a body cut short is fatal:
\* the reader never asks for a sixth length byte, and a frame with such a
\* defect changes neither stage nor version, enqueues nothing and ends the
\* connection task
C16_FramingErrorsFatal ==
    /\ [](task[1] = "running" /\ rd.pc = "varint" => rd.i < VarintMax)
    /\ [][BadFrameStep =>
            /\ sent' = sent /\ stage' = stage /\ version' = version
            /\ task'[1] # "running"]_vars

\* C13: once the client has closed and its bytes are read, the connection
\* task leaves its loop
C13_CloseTerminates == (net = <<>>) ~> TaskEnded(1)

\* the region loaded from the writer's serialized output
Reloaded == load(serialize(writer))
\* the sectors the reloaded header records for a slot
SectorRange(s) ==
    LET info == Reloaded.header.chunks[get_index(s[1], s[2])]
    IN  info.offset .. (info.offset + info.sectors - 1)

\* C20: reloading the serialized writer yields, for every slot copied, the
\* raw bytes and the timestamp of the source region, and None for every
\* other slot; the sector ranges of distinct slots start at sector 2 or
\* later and are disjoint
C20_RoundTrip ==
    /\ \A s \in writer.rawSet :
           get_chunk_raw(Reloaded, s[1], s[2])
             = [some |-> TRUE, panic |-> FALSE, raw |-> RawBytes(s, region[s].len)]
    /\ \A s \in writer.tsSet :
           get_timestamp(Reloaded, s[1], s[2]) = region[s].timestamp
    /\ \A s \in Slots \ writer.rawSet :
           get_chunk_raw(Reloaded, s[1], s[2]) = [some |-> FALSE, panic |-> FALSE]
    /\ \A s \in writer.rawSet, t \in writer.rawSet :
           /\ \A n \in SectorRange(s) : n >= HeaderSectors
           /\ s # t => SectorRange(s) \cap SectorRange(t) = {}

\* C28: a connection is in Config or Play only after a LoginSuccess was
\* enqueued on it
C28_StageNeedsLogin ==
    \A c \in Conns :
        stage[c] \in {"Config", "Play"} => HasType(sent[c], "LoginSuccess")

\* C30: a connection whose version is not 1.21 is never sent LoginSuccess,
\* never has its ciphers installed and never is in Config or Play
C30_OnlyLatestLogsIn ==
    \A c \in Conns :
        version[c] # "V1_21" /\ handshakes[c] > 0 =>
            /\ ~HasType(sent[c], "LoginSuccess")
            /\ ~cipher[c]
            /\ stage[c] \notin {"Config", "Play"}

\* the profiles the session service returned to a connection with status
\* 200: those of a LoginSuccess that does not follow the kick of a non-200
Verified200(c) ==
    {sent[c][i].arg : i \in {j \in DOMAIN sent[c] :
        /\ sent[c][j].type = "LoginSuccess"
        /\ ~(j > 1 /\ sent[c][j - 1] = Pkt("LoginDisconnect", TextProfileFailed))}}

\* C29: every profile sent on the channel of a code is a profile the
\* session service returned with status 200 to the connection that sent
\* it, and never the placeholder profile
C29_OnlyVerifiedProfiles ==
    \A code \in Codes : \A i \in DOMAIN delivered[code] :
        /\ delivered[code][i][2] \in Verified200(delivered[code][i][3])
        /\ delivered[code][i][2] # PlaceholderProfile

\* the sectors the writer appended to its chunk area for a slot: the
\* length field, the raw bytes and the padding that follows them
SectorsAppended(s) ==
    LET i == CHOOSE j \in DOMAIN writer.data :
                 writer.data[j].kind = "raw" /\ writer.data[j].tok = s
        pad == IF i < Len(writer.data) /\ writer.data[i + 1].kind = "zeros"
               THEN writer.data[i + 1].len ELSE 0
    IN  (writer.data[i - 1].len + writer.data[i].len + pad) \div SectorSize

\* C22: the sector count the writer records for a slot is the number of
\* sectors it appended for that slot; a chunk of more than 255 sectors is
\* not recorded at all
C22_SectorCountExact ==
    \A s \in writer.rawSet :
        /\ writer.chunks[get_index(s[1], s[2])].sectors = SectorsAppended(s)
        /\ SectorsAppended(s) <= MaxSectors

\* C21: a read of a present chunk whose compression tag is not 1, 2 or 3
\* returns None and does not abort
C21_BadTagIsAbsent ==
    calc.op \in {"get_chunk_data", "get_chunk_nbt", "get_chunk"} /\ calc.done
        /\ calc.arg.offset # 0 /\ calc.arg.sectors # 0
        /\ calc.arg.comp \notin {1, 2, 3}
    => calc.res = ReadNone

\* C23: for all coordinates the header index is (z & 31) * 32 + (x & 31),
\* which lies in 0..1023, and the store at that index succeeds
C23_IndexMasked ==
    calc.op \in {"get_index", "set_chunk_timestamp"} /\ calc.done =>
        /\ calc.res.index = (calc.arg[2] % 32) * 32 + (calc.arg[1] % 32)
        /\ calc.res.index \in 0 .. (HeaderEntries - 1)
        /\ ~calc.res.panic

\* the least number of 7-bit groups that hold the 32 bits of v
MinVarintLen(v) ==
    IF v < 0 THEN 5
    ELSE IF v < 128 THEN 1
    ELSE IF v < 16384 THEN 2
    ELSE IF v < 2097152 THEN 3
    ELSE IF v < 268435456 THEN 4
    ELSE 5

\* C27: write_varint emits the least number of bytes for its value, 1 to
\* 5, with the continuation bit on all but the last, and read_varint of
\* these bytes returns the value and consumes them and no more
C27_VarintRoundTrip ==
    calc.op = "read_varint" =>
        /\ Len(calc.arg) = MinVarintLen(calc.value)
        /\ Len(calc.arg) \in 1 .. 5
        /\ \A j \in DOMAIN calc.arg : HasMore(calc.arg[j]) <=> j < Len(calc.arg)
        /\ calc.res.ok
        /\ calc.res.val = calc.value
        /\ calc.res.used = Len(calc.arg)

C27_Witness ==
    /\ calc.op = "read_varint" /\ calc.value = MinI32
    /\ calc.arg = <<128, 128, 128, 128, 8>>
    /\ calc.res.val = MinI32

\* C24: the decoder unpacks with the bit width the encoder packed with,
\* and the first 4096 values it returns are the indices that were packed
C24_PackRoundTrip ==
    calc.op = "decode_blocks" =>
        /\ calc.bits = calc.bpe
        /\ \A k \in BlockIndexes : calc.res[k] = calc.idx[k]

\* C25: for the tags with lists of one type and compounds of unique names,
\* in both root-name modes, parsing what serialize wrote yields the tag
\* and leaves in the buffer exactly what followed the bytes written
C25_NbtRoundTrip ==
    calc.op = "parse_nbt" =>
        /\ calc.res.ok
        /\ calc.res.tag = calc.arg.tag
        /\ calc.res.rest = <<calc.trail>>

C25_Witness ==
    /\ calc.op = "parse_nbt" /\ calc.arg.x /\ calc.res.ok
    /\ Kind(calc.arg.tag) = 10 /\ DOMAIN Val(calc.arg.tag) = {NameA, NameB}
    /\ Kind(Val(calc.arg.tag)[NameA]) = 9 /\ Len(Val(Val(calc.arg.tag)[NameA])) = 2
    /\ calc.res.tag = calc.arg.tag

\* C26: parsing a ByteArray, List, IntArray or LongArray with a negative
\* size field does not return a tag
C26_NegativeSizeIsError ==
    (calc.op = "parse" /\ calc.done /\ calc.arg.size < 0) => ~calc.res.ok

\* C31: a connection leaves Config for Play only when the server's Ready
\* is already among its packets, and a connection in Config is sent no
\* JoinGame before the server's Ready
C31_PlayAfterServerReady ==
    [][\A c \in Conns :
          stage[c] = "Config" =>
              /\ stage'[c] = "Play" => HasType(sent[c], "Ready")
              /\ CountType(sent'[c], "JoinGame") > CountType(sent[c], "JoinGame")
                     => HasType(sent[c], "Ready")]_vars

\* the places of the packets of a type, or of one packet, among those sent
PlacesOfType(c, t) == {i \in DOMAIN sent[c] : sent[c][i].type = t}
PlacesOf(c, p) == {i \in DOMAIN sent[c] : sent[c][i] = p}
\* every place of a is before every place of b
AllBefore(a, b) == \A i \in a, j \in b : i < j
PlayTypes == {"JoinGame", "GameEvent", "SyncPlayerPosition", "KeepAlive",
              "GameMessage", "ChunkData", "PlayDisconnect"}

\* C32: of the Play packets JoinGame is sent first, then the GameEvent on
\* 1.20.4 and later and on no other version, then SyncPlayerPosition;
\* KeepAlive, greetings and ChunkData come after SyncPlayerPosition, the
\* welcome title before the instructions, both before every ChunkData
C32_PlayEntryOrder ==
    \A c \in Conns :
        LET join  == PlacesOfType(c, "JoinGame")
            event == PlacesOfType(c, "GameEvent")
            sync  == PlacesOfType(c, "SyncPlayerPosition")
            hello == PlacesOf(c, Pkt("GameMessage", TextWelcome))
            instr == PlacesOf(c, Pkt("GameMessage", TextInstructions))
            chunk == PlacesOfType(c, "ChunkData")
        IN  /\ \A i \in DOMAIN sent[c] :
                 sent[c][i].type \in PlayTypes => \E j \in join : j <= i
            /\ stage[c] = "Play" =>
                 /\ Cardinality(join) = 1 /\ Cardinality(sync) = 1
                 /\ Cardinality(event) = (IF VersionGe(version[c], "V1_20_4") THEN 1 ELSE 0)
                 /\ \A j \in join, e \in event : e = j + 1
                 /\ \A j \in join, y \in sync : y = j + 1 + Cardinality(event)
            /\ AllBefore(sync, PlacesOfType(c, "KeepAlive") \cup hello \cup instr \cup chunk)
            /\ AllBefore(hello, instr)
            /\ AllBefore(hello \cup instr, chunk)
            /\ chunk # {} => hello # {} /\ instr # {}

C32_Witness ==
    /\ version[1] = "V1_20_4" /\ stage[1] = "Play" /\ ck[1].pc = "done"
    /\ HasType(sent[1], "KeepAlive") /\ HasType(sent[1], "GameEvent")
    /\ Len(wire[1]) = Len(sent[1])

\* the coordinates of the 3-chunk square around the origin
SquareCoords == (0 - 1) .. 1

\* C33: the first ChunkData is that of (0, 0), no coordinate is sent twice,
\* and when the chunk task has ended by itself every coordinate of the
\* square around the origin has been sent once: nine packets
C33_NineChunks ==
    \A c \in Conns :
        LET chunks == SelectSeq(sent[c], LAMBDA p : p.type = "ChunkData")
        IN  /\ chunks # <<>> => chunks[1] = PktXZ("ChunkData", "empty", 0, 0)
            /\ \A i, j \in DOMAIN chunks : chunks[i] = chunks[j] => i = j
            /\ ck[c].pc = "done" =>
                 /\ Len(chunks) = Diam * Diam
                 /\ \A x, z \in SquareCoords :
                      CountPkt(sent[c], PktXZ("ChunkData", "empty", x, z)) = 1

\* the packet at place i was enqueued with the ciphers installed: the first
\* LoginSuccess is the first packet enqueued after their installation
EnqueuedEncrypted(c, i) == \E j \in 1 .. i : sent[c][j].type = "LoginSuccess"

\* C34: a packet is written encrypted exactly if the ciphers were
\* installed when it was enqueued
C34_EncryptedAsEnqueued ==
    \A c \in Conns : \A i \in DOMAIN wire[c] :
        wire[c][i][2] <=> EnqueuedEncrypted(c, i)

\* C35: LoginSuccess is enqueued at most once on a connection (each
\* LoginSuccess follows one installation of a cipher pair)
C35_OneLoginSuccess ==
    \A c \in Conns : CountType(sent[c], "LoginSuccess") <= 1

\* the one disconnect packet of a stage that has one
DisconnectOf(st, reason) ==
    CASE st = "Login" -> <<Pkt("LoginDisconnect", reason)>>
      [] st = "Config" -> <<Pkt("ConfigDisconnect", reason)>>
      [] st = "Play" -> <<Pkt("PlayDisconnect", reason)>>
      [] st \in {"Handshake", "Status", "Transfer", "Invalid"} -> <<>>

\* C36: kick enqueues the one disconnect packet of the current stage and
\* answers Ok(true), or in Handshake, Status, Transfer and Invalid enqueues
\* nothing and answers Ok(false); the stage stays as it is
C36_KickByStage ==
    [][Pending("kick") =>
          LET c == calc.arg[1]
          IN  /\ sent'[c] = sent[c] \o DisconnectOf(stage[c], calc.arg[2])
              /\ calc'.res = (stage[c] \in {"Login", "Config", "Play"})
              /\ stage' = stage]_vars

C36_Witness ==
    /\ calc.op = "kick" /\ calc.done /\ calc.res
    /\ stage[calc.arg[1]] = "Config"
    /\ Len(sent[calc.arg[1]]) > 1
    /\ sent[calc.arg[1]][Len(sent[calc.arg[1]])] = Pkt("ConfigDisconnect", calc.arg[2])

\* C38: the AuthManager mutex is never held forever, a chat handler that
\* waits for it is served, and a handler mutex taken for a chat line is
\* released again
C38_LocksGranted ==
    /\ (managerLock # 0) ~> (managerLock = 0)
    /\ \A c \in Conns : (pc[c] = "chat_lock") ~> (pc[c] # "chat_lock")
    /\ \A c \in Conns : HandlerLocked(c) ~> ~HandlerLocked(c)

\* a chat handler waits for the AuthManager mutex while the chat handler of
\* another connection holds it in front of its channel send
C38_Witness ==
    /\ managerLock = 1
    /\ pc[1] = "chat_send"
    /\ pc[2] = "chat_lock"
    /\ codes[chatMsg[1]].chan \in rxAlive[chatMsg[1]]

\* C39: a code that is marked used stays known and used in every step
C39_UsedStaysUsed ==
    [][\A k \in Codes : IsCodeUsed(codes, k) => IsCodeUsed(codes', k)]_vars

\* C40: a style setter changes only its own style field, and to_nbt has an
\* "italic" entry exactly if set_italic was called
C40_SetterOwnField ==
    [][/\ \A f \in StyleFields : f # calc'.last => calc'.arg[f] = calc.arg[f]
       /\ (\E e \in to_nbt(calc'.arg) : e[1] = "italic") <=> "italic" \in calc'.called]_vars

\* everything a connection task, its handler and its background tasks keep
Own(c) ==
    <<task[c], pc[c], stage[c], version[c], username[c], authNonce[c], profile[c],
      cipher[c], sent[c], wire[c], extra[c], handshakes[c], sessionReqs[c], ka[c],
      ck[c], chatMsg[c], chats[c], protocol[c], statusReqs[c], lastFrame[c]>>

\* C37: a step of one connection (a packet handled, an error, a panic)
\* leaves what every other connection is sent, its stage, version, profile
\* and cipher state and its task as they are, and changes of the
\* AuthManager's entries nothing but used flags
C37_ConnectionsIsolated ==
    [][\A d \in Conns : Own(d)' # Own(d) =>
          /\ \A c \in Conns \ {d} :
                /\ <<sent[c], stage[c], version[c], profile[c], cipher[c]>>'
                     = <<sent[c], stage[c], version[c], profile[c], cipher[c]>>
                /\ task'[c] = task[c]
          /\ \A k \in Codes : [codes'[k] EXCEPT !.used = codes[k].used] = codes[k]]_vars

\* connection 1 has panicked on its channel send after it used a code, and
\* connection 2 has been told since that the code is used
C37_Witness ==
    /\ task[1] = "panicked"
    /\ stage[2] = "Play"
    /\ \E k \in Codes : IsCodeUsed(codes, k)
    /\ CountPkt(sent[2], Pkt("GameMessage", TextAlreadyUsed)) > 0

====
